---- MODULE Spec2Model ----
(***************************************************************************)
(* Snuggle backend: the daily visitor counter (services/visitor.service,   *)
(* routes/visitors) over the shared Redis connection (lib/redis).          *)
(*                                                                         *)
(* An instant is the value of Date.getTime(), epoch milliseconds, kept as  *)
(* [day, ms] (whole days since 1970-01-01 and milliseconds within the day) *)
(* so that every number stays inside TLC's 32-bit integers.                *)
(*                                                                         *)
(* A command travels the connection in first-in first-out order. The       *)
(* server's processing of a command and the continuation of the call that  *)
(* awaits it are one step: the reply reaches no one but that call, and the *)
(* call does nothing between the reply and its next command. A command may *)
(* instead be rejected by the client (connection error), at any time, and  *)
(* may wait on the connection for any length of time.                      *)
(***************************************************************************)
EXTENDS Integers, Sequences, FiniteSets, TLC

VARIABLES
    now,        \* the wall clock, in ticks of TickHours since the base instant
    store,      \* Redis keyspace: existing key -> [members, expireAt]
    conn,       \* commands written to the shared connection, not yet processed
    reqs,       \* the HTTP requests so far, in arrival order
    logged,     \* requests whose failure went to console.error
    kIn,        \* key derivation check: the pair of instants drawn
    kOut,       \* key derivation check: the keys derived from kIn
    ipIn,       \* identifier check: the header and socket address drawn
    ipOut,      \* identifier check: the identifier resolved from ipIn
    auth,       \* requests that entered authMiddleware, in arrival order
    pgIn,       \* pagination check: the limit and offset query strings drawn
    pgOut,      \* pagination check: the rows the list endpoint asks for
    db,         \* the API database: table name -> set of rows
    apiCalls    \* the calls of the database-backed handlers, in arrival order

vars == <<now, store, conn, reqs, logged, kIn, kOut, ipIn, ipOut, auth,
         pgIn, pgOut, db, apiCalls>>

-----------------------------------------------------------------------------
(* Bounds *)

MaxReq == 2
MaxTicks == 5
TickHours == 12
BaseDay == 19723

-----------------------------------------------------------------------------
(* Time *)

MsPerHour == 60 * 60 * 1000
MsPerDay == 24 * MsPerHour

\* a + d milliseconds, d >= 0
AddMs(a, d) ==
    LET s == a.ms + d
    IN  [day |-> a.day + (s \div MsPerDay), ms |-> s % MsPerDay]

Before(a, b) == a.day < b.day \/ (a.day = b.day /\ a.ms < b.ms)

\* new Date().getTime() when the clock shows n ticks
DateNow(n) ==
    LET h == n * TickHours
    IN  [day |-> BaseDay + (h \div 24), ms |-> (h % 24) * MsPerHour]

-----------------------------------------------------------------------------
(* Date.prototype.toISOString, by the ECMAScript date algorithms *)

Pad2(n) == IF n < 10 THEN "0" \o ToString(n) ELSE ToString(n)

Pad3(n) == IF n < 10 THEN "00" \o ToString(n)
           ELSE IF n < 100 THEN "0" \o ToString(n) ELSE ToString(n)

DayFromYear(y) ==
    365 * (y - 1970) + ((y - 1969) \div 4) - ((y - 1901) \div 100)
        + ((y - 1601) \div 400)

\* the year y with DayFromYear(y) <= d < DayFromYear(y + 1)
YearFromDay(d) ==
    LET y == 1970 + (d \div 365)
    IN  IF DayFromYear(y) <= d THEN y ELSE y - 1

InLeapYear(y) == IF DayFromYear(y + 1) - DayFromYear(y) = 366 THEN 1 ELSE 0

\* day of the year on which each month starts
MonthStart(l) ==
    <<0, 31, 59 + l, 90 + l, 120 + l, 151 + l, 181 + l, 212 + l, 243 + l,
      273 + l, 304 + l, 334 + l>>

MonthFromDay(d) ==
    LET y == YearFromDay(d)
        w == d - DayFromYear(y)
        st == MonthStart(InLeapYear(y))
    IN  CHOOSE m \in 1..12 : st[m] <= w /\ (m = 12 \/ w < st[m + 1])

DateFromDay(d) ==
    LET y == YearFromDay(d)
    IN  d - DayFromYear(y) - MonthStart(InLeapYear(y))[MonthFromDay(d)] + 1

\* the string as the pieces around its 'T'
toISOString(t) ==
    LET h == t.ms \div MsPerHour
        mi == (t.ms % MsPerHour) \div 60000
        s == (t.ms % 60000) \div 1000
    IN  << ToString(YearFromDay(t.day)) \o "-" \o Pad2(MonthFromDay(t.day))
              \o "-" \o Pad2(DateFromDay(t.day)),
           "T",
           Pad2(h) \o ":" \o Pad2(mi) \o ":" \o Pad2(s) \o "."
              \o Pad3(t.ms % 1000) \o "Z" >>

\* s.split('T')[0]
SplitT(s) == s[1]

-----------------------------------------------------------------------------
(* services/visitor.service: getTodayKey *)

KstOffset == 9 * 60 * 60 * 1000

KeyPrefix == "snuggle:visitors:"

\* the key by the UTC date, without the offset
getTodayKeyUtc(t) == KeyPrefix \o SplitT(toISOString(t))

getTodayKey(t) ==
    LET kstDate == AddMs(t, KstOffset)
        dateString == SplitT(toISOString(kstDate))
    IN  KeyPrefix \o dateString

-----------------------------------------------------------------------------
(* The Redis commands the service uses, as the server applies them.        *)
(* A key maps to [members, expireAt]; a key without expiry has NoExpiry.   *)

NoExpiry == [day |-> 0 - 1, ms |-> 0]

\* the expiry in minutes taken for seconds
TtlSecondsShort == 60 * 48

TtlSeconds == 60 * 60 * 48

\* SADD that replaces the set instead of adding to it
SAddOverwrite(s, k, m, t) ==
    IF k \in DOMAIN s THEN [s EXCEPT ![k].members = {m}]
    ELSE s @@ (k :> [members |-> {m}, expireAt |-> NoExpiry])

\* SADD that also stamps a fresh key with the 48 hour expiry
SAddWithTtl(s, k, m, t) ==
    IF k \in DOMAIN s THEN [s EXCEPT ![k].members = @ \cup {m}]
    ELSE s @@ (k :> [members |-> {m},
                     expireAt |-> AddMs(t, TtlSeconds * 1000)])

\* SADD key member at instant t
SAdd(s, k, m, t) ==
    IF k \in DOMAIN s THEN [s EXCEPT ![k].members = @ \cup {m}]
    ELSE s @@ (k :> [members |-> {m}, expireAt |-> NoExpiry])

\* EXPIRE that keeps an expiry the key already has
ExpireNx(s, k, t, secs) ==
    IF k \in DOMAIN s /\ s[k].expireAt = NoExpiry
    THEN [s EXCEPT ![k].expireAt = AddMs(t, secs * 1000)]
    ELSE s

\* EXPIRE key secs at instant t
Expire(s, k, t, secs) ==
    IF k \in DOMAIN s THEN [s EXCEPT ![k].expireAt = AddMs(t, secs * 1000)]
    ELSE s

\* SCARD that answers -1 for a key that does not exist
SCardMissing(s, k) ==
    IF k \in DOMAIN s THEN Cardinality(s[k].members) ELSE 0 - 1

\* EXISTS in place of SCARD
SCardExists(s, k) == IF k \in DOMAIN s THEN 1 ELSE 0

\* SCARD key
SCard(s, k) == IF k \in DOMAIN s THEN Cardinality(s[k].members) ELSE 0

\* the keyspace at instant t: keys whose expiry has been reached are gone
Purge(s, t) ==
    LET live == {k \in DOMAIN s :
                    s[k].expireAt = NoExpiry \/ Before(t, s[k].expireAt)}
    IN  [k \in live |-> s[k]]

Members(s, k) == IF k \in DOMAIN s THEN s[k].members ELSE {}

-----------------------------------------------------------------------------
(* services/visitor.service: trackVisitor and getDailyVisitorCount         *)

\* the awaited commands of trackVisitor, expiry first
TrackStepsSwapped == <<"expire", "sadd">>

\* the awaited commands of trackVisitor, in program order
TrackSteps == <<"sadd", "expire">>

CountSteps == <<"scard">>

\* getTodayKey() at each reading of the clock
KeyAtTick == [n \in 0..MaxTicks |-> getTodayKey(DateNow(n))]

Steps(kind) == IF kind = "track" THEN TrackSteps ELSE CountSteps

\* a connection that serves the newest command first
EnqueueFront(q, c) == <<c>> \o q

\* the shared handle writes commands to the connection in call order
Enqueue(q, c) == Append(q, c)

Cmd(op, key, arg, r) == [op |-> op, key |-> key, arg |-> arg, req |-> r]

-----------------------------------------------------------------------------
(* routes/visitors: the inputs of a request                                *)
(* req.headers['x-forwarded-for'] is undefined or a string: the empty set  *)
(* or the set of one value. A header value is the sequence of its pieces,  *)
(* "," being a piece of its own, so <<>> is the empty string. The empty    *)
(* string stands for an absent socket address.                             *)

undefined == {}

ForwardedValues ==
    { undefined, {<<"9.9.9.9", ",", " 10.0.0.1">>} }

RemoteAddresses == { "", "5.6.7.8" }

RECURSIVE SplitCommaFirst(_)
\* h.split(',')[0]
SplitCommaFirst(h) ==
    IF h = <<>> \/ Head(h) = "," THEN ""
    ELSE Head(h) \o SplitCommaFirst(Tail(h))

\* the condition of `forwarded ? ... : ...`: undefined and '' are falsy
Truthy(forwarded) == forwarded # undefined /\ forwarded # {<<>>}

ResolveIpSocketFirst(forwarded, remote) ==
    IF remote # "" THEN remote
    ELSE IF Truthy(forwarded)
         THEN SplitCommaFirst(CHOOSE h \in forwarded : TRUE)
         ELSE "127.0.0.1"

\* forwarded ? forwarded.split(',')[0] : req.socket.remoteAddress || '127.0.0.1'
ResolveIp(forwarded, remote) ==
    IF Truthy(forwarded)
    THEN SplitCommaFirst(CHOOSE h \in forwarded : TRUE)
    ELSE IF remote # "" THEN remote ELSE "127.0.0.1"

-----------------------------------------------------------------------------
(* State after start-up: an empty keyspace, nothing in flight *)

NoInstant == [day |-> 0, ms |-> 0]

NoHeaders == [forwarded |-> undefined, remote |-> ""]

\* the state of the routes behind the API database, idle in the specifications
\* of the visitor counter
apiVars == <<auth, pgIn, pgOut, db, apiCalls>>

NoQuery == [limit |-> undefined, offset |-> undefined]

\* the rows the API database holds at start: two users with a profile each,
\* b1 and b3 the blogs of u1 (b3 soft-deleted earlier), b2 the blog of u2
null == {}

\* stands for the name of the system skin the customize handler looks up
DefaultSkinName == "default"

InitialDb ==
    [ profiles |-> { [id |-> "u1", deleted_at |-> null],
                     [id |-> "u2", deleted_at |-> null] },
      blogs |-> { [id |-> "b1", user_id |-> "u1", name |-> "n1",
                   deleted_at |-> null],
                  [id |-> "b2", user_id |-> "u2", name |-> "n2",
                   deleted_at |-> null],
                  [id |-> "b3", user_id |-> "u1", name |-> "n3",
                   deleted_at |-> {0}] },
      categories |-> { [id |-> 1, blog_id |-> "b1", name |-> <<"x">>],
                       [id |-> 2, blog_id |-> "b2", name |-> <<"x">>] },
      posts |-> { [id |-> 1, blog_id |-> "b1", user_id |-> "u1",
                   title |-> <<"t">>, published |-> TRUE, created_at |-> 0],
                  [id |-> 2, blog_id |-> "b1", user_id |-> "u1",
                   title |-> <<"t">>, published |-> FALSE, created_at |-> 1],
                  [id |-> 3, blog_id |-> "b2", user_id |-> "u2",
                   title |-> <<"t">>, published |-> FALSE,
                   created_at |-> 2] },
      post_categories |-> {},
      blog_skins |-> { [id |-> "s0", name |-> DefaultSkinName,
                        is_system |-> TRUE],
                       [id |-> "s1", name |-> "s1", is_system |-> FALSE] },
      blog_skin_applications |-> {},
      user_skin_library |-> {},
      forum |-> {},
      forum_comments |-> {},
      \* the keys of the objects in the R2 bucket
      objects |-> {} ]

ApiIdle ==
    /\ auth = <<>>
    /\ pgIn = NoQuery
    /\ pgOut = <<>>
    /\ db = InitialDb
    /\ apiCalls = <<>>

Init ==
    /\ now = 0
    /\ store = <<>>
    /\ conn = <<>>
    /\ reqs = <<>>
    /\ logged = {}
    /\ kIn = <<NoInstant, NoInstant>>
    /\ kOut = <<>>
    /\ ipIn = NoHeaders
    /\ ipOut = <<>>
    /\ ApiIdle

keyVars == <<kIn, kOut>>

ipVars == <<ipIn, ipOut>>

\* a request record: the call it made, where that call stands, its response
\*   pc      index into Steps(kind) of the command being awaited
\*   st      "pending", "done" (resolved) or "failed" (rejected)
\*   applied the commands of this call the server has applied
\*   status  HTTP status sent, 0 while no response has been sent
\*   count   the count in the response body, -1 if none
\*   busy    TRUE if another track call was unfinished when this one started
Request(kind, ip, key, status, busy) ==
    [kind |-> kind, ip |-> ip, key |-> key, pc |-> 1,
     st |-> "pending", applied |-> {}, status |-> status, count |-> 0 - 1,
     busy |-> busy]

Unfinished(kind) ==
    \E i \in 1..Len(reqs) : reqs[i].kind = kind /\ reqs[i].st = "pending"

\* router.post('/'): resolve the identifier, start trackVisitor without
\* awaiting it, respond 200 {success: true}
PostVisitors(forwarded, remote) ==
    /\ Len(reqs) < MaxReq
    /\ LET ip == ResolveIp(forwarded, remote)
           key == KeyAtTick[now]
           r == Len(reqs) + 1
           c == Cmd(TrackSteps[1], key, ip, r)
       IN  /\ reqs' = Append(reqs,
                        Request("track", ip, key, 200, Unfinished("track")))
           /\ conn' = Enqueue(conn, c)
    /\ UNCHANGED <<now, store, logged, keyVars, ipVars, apiVars>>

\* router.get('/count'): start getDailyVisitorCount and await it
GetCount ==
    /\ Len(reqs) < MaxReq
    /\ LET key == KeyAtTick[now]
           r == Len(reqs) + 1
           c == Cmd(CountSteps[1], key, "", r)
       IN  /\ reqs' = Append(reqs, Request("count", "", key, 0, FALSE))
           /\ conn' = Enqueue(conn, c)
    /\ UNCHANGED <<now, store, logged, keyVars, ipVars, apiVars>>

\* a server on which reading the set slides its expiry
ApplyTouch(s, c, t) ==
    IF c.op = "sadd" THEN SAdd(s, c.key, c.arg, t)
    ELSE Expire(s, c.key, t, TtlSeconds)

\* what the server does with command c at instant t
Apply(s, c, t) ==
    IF c.op = "sadd" THEN SAdd(s, c.key, c.arg, t)
    ELSE IF c.op = "expire" THEN Expire(s, c.key, t, TtlSeconds)
    ELSE s

\* the server's reply to command c
ReplyValue(s, c) ==
    IF c.op = "sadd" THEN (IF c.arg \in Members(s, c.key) THEN 0 ELSE 1)
    ELSE IF c.op = "expire" THEN (IF c.key \in DOMAIN s THEN 1 ELSE 0)
    ELSE SCard(s, c.key)

\* the awaited promise of request r resolves with val: the call goes on to
\* its next command, or returns (and GET /count responds { count })
Resolve(r, val, rest) ==
    LET q == reqs[r]
        steps == Steps(q.kind)
    IN  IF q.pc < Len(steps)
        THEN /\ reqs' = [reqs EXCEPT ![r].pc = q.pc + 1,
                           ![r].applied = @ \cup {steps[q.pc]}]
             /\ conn' = Enqueue(rest, Cmd(steps[q.pc + 1], q.key, q.ip, r))
        ELSE /\ reqs' = [reqs EXCEPT ![r].st = "done",
                           ![r].applied = @ \cup {steps[q.pc]},
                           ![r].status = IF q.kind = "count" THEN 200 ELSE @,
                           ![r].count = IF q.kind = "count" THEN val ELSE @]
             /\ conn' = rest

\* a rejection that reaches the handler's catch block whatever the call
RejectStatusAwaited(q) == 500

\* a read path that falls back to success when its call rejects
RejectStatusDefault(q) == 200

\* the response of request q once its call has rejected: POST has answered
\* already and .catch only logs; GET /count answers 500 from its catch block
RejectStatus(q) == IF q.kind = "count" THEN 500 ELSE q.status

\* the awaited promise of request r rejects
Reject(r, rest) ==
    /\ reqs' = [reqs EXCEPT ![r].st = "failed",
                  ![r].status = RejectStatus(reqs[r])]
    /\ conn' = rest
    /\ logged' = logged \cup {r}

\* the server processes the oldest command on the connection and the call
\* awaiting it continues
Exec ==
    /\ conn # <<>>
    /\ LET c == Head(conn)
       IN  /\ store' = Apply(store, c, DateNow(now))
           /\ Resolve(c.req, ReplyValue(store, c), Tail(conn))
    /\ UNCHANGED <<now, logged, keyVars, ipVars, apiVars>>

\* the oldest command is lost to a connection error (store unavailable):
\* nothing is applied and the client rejects the call awaiting it
Fail ==
    /\ conn # <<>>
    /\ Reject(Head(conn).req, Tail(conn))
    /\ UNCHANGED <<now, store, keyVars, ipVars, apiVars>>

\* time passes; Redis drops the keys whose expiry has been reached
Tick ==
    /\ now < MaxTicks
    /\ now' = now + 1
    /\ store' = Purge(store, DateNow(now + 1))
    /\ UNCHANGED <<conn, reqs, logged, keyVars, ipVars, apiVars>>

Next ==
    \/ \E f \in ForwardedValues, a \in RemoteAddresses : PostVisitors(f, a)
    \/ GetCount
    \/ Exec
    \/ Fail
    \/ Tick

Spec == Init /\ [][Next]_vars

-----------------------------------------------------------------------------
(* The visitor counter's claims *)

Today == KeyAtTick[now]

TrackReqs == {r \in 1..Len(reqs) : reqs[r].kind = "track"}

CountReqs == {r \in 1..Len(reqs) : reqs[r].kind = "count"}

\* the identifiers whose add the server has applied to key k
Recorded(k) ==
    {reqs[r].ip : r \in {x \in TrackReqs :
                            reqs[x].key = k /\ "sadd" \in reqs[x].applied}}

\* this step applies command op of request r
Applies(r, op) == op \notin reqs[r].applied /\ op \in reqs'[r].applied

FortyEightHoursFrom(t) == [day |-> t.day + 2, ms |-> t.ms]

\* C1: every add of an identifier applied to the current day's key raises
\* the day's count by exactly 1 if the identifier had not been recorded that
\* day and by 0 if it had, however many times it is tracked.
C1_TrackIdempotent ==
    [][\A r \in TrackReqs :
          (Applies(r, "sadd") /\ reqs[r].key = Today) =>
              SCard(store', Today) = SCard(store, Today)
                  + (IF reqs[r].ip \in Recorded(Today) THEN 0 ELSE 1)]_vars

\* two calls for one identifier on one day, counted once
C1_Witness ==
    /\ Len(reqs) >= 2
    /\ \A r \in 1..2 : /\ reqs[r].kind = "track"
                       /\ reqs[r].ip = reqs[1].ip
                       /\ reqs[r].key = Today
                       /\ reqs[r].st = "done"
    /\ SCard(store, Today) = 1

\* C2: in every state the cardinality of the current day's set is the number
\* of distinct identifiers recorded under that day's key.
C2_CountIsDistinctRecorded ==
    SCard(store, Today) = Cardinality(Recorded(Today))

\* track(a) then track(b), a # b, on one day: the count is 2
C2_Witness ==
    /\ SCard(store, Today) = 2
    /\ \E a, b \in TrackReqs :
          /\ a < b /\ reqs[a].ip # reqs[b].ip
          /\ \A r \in {a, b} : reqs[r].key = Today /\ reqs[r].st = "done"

\* C3: the step that applies a track call's expiry to the current day's key
\* leaves that key with an expiry exactly 48 hours after the instant of the
\* step, whatever expiry (or none) the key had.
C3_TtlRefreshed ==
    [][\A r \in TrackReqs :
          (Applies(r, "expire") /\ reqs[r].key = Today) =>
              /\ Today \in DOMAIN store'
              /\ store'[Today].expireAt = FortyEightHoursFrom(DateNow(now))]_vars

\* a later call has refreshed the expiry an earlier call of the day had set
C3_Witness ==
    /\ now >= 1
    /\ \E a, b \in TrackReqs :
          /\ a < b
          /\ reqs[a].key = Today /\ reqs[b].key = Today
          /\ reqs[a].st = "done" /\ reqs[b].st = "done"
          /\ ~reqs[b].busy
    /\ Today \in DOMAIN store
    /\ store[Today].expireAt = FortyEightHoursFrom(DateNow(now))

\* C4: a POST /api/visitors has answered 200 from the moment it arrived and
\* keeps that answer while its track call is pending, after it resolved and
\* after it was rejected; a rejected call is logged.
C4_PostAlwaysSucceeds ==
    \A r \in TrackReqs :
        /\ reqs[r].status = 200
        /\ (reqs[r].st = "failed" => r \in logged)

\* one POST answered 200 whose call was rejected, one whose call still waits
C4_Witness ==
    \E a, b \in TrackReqs :
        /\ reqs[a].st = "failed" /\ reqs[a].applied = {} /\ reqs[a].status = 200
        /\ a \in logged
        /\ reqs[b].st = "pending" /\ reqs[b].status = 200

\* the add of track request r was rejected
AddRejected(r) == reqs[r].st = "failed" /\ "sadd" \notin reqs[r].applied

\* C5: when the count of a GET /api/visitors/count is taken on the day the
\* request arrived, it includes the identifier of every POST /api/visitors
\* that had responded before on that day and whose add was not rejected; the
\* count is then at least 1.
C5_ReadYourWrites ==
    [][\A g \in CountReqs :
          (Applies(g, "scard") /\ reqs[g].key = Today) =>
              \A r \in TrackReqs :
                  (r < g /\ reqs[r].key = Today /\ ~AddRejected(r)) =>
                      /\ reqs[r].ip \in Members(store, Today)
                      /\ reqs'[g].count >= 1
                      /\ reqs'[g].count = Cardinality(Members(store, Today))]_vars

\* the first visitor of the day, then a GET that answered { count: 1 }
C5_Witness ==
    /\ Len(reqs) >= 2
    /\ reqs[1].kind = "track"
    /\ reqs[2].kind = "count" /\ reqs[2].key = reqs[1].key
    /\ reqs[2].st = "done" /\ reqs[2].status = 200 /\ reqs[2].count = 1

\* C6, as claimed: a written key with no track call still in progress on it
\* carries an expiry no later than 48 hours from now, so it cannot stay in
\* the store forever.
C6_WrittenKeyExpires ==
    \A k \in DOMAIN store :
        (\A r \in TrackReqs : reqs[r].key = k => reqs[r].st # "pending") =>
            /\ store[k].expireAt # NoExpiry
            /\ ~Before(FortyEightHoursFrom(DateNow(now)), store[k].expireAt)

\* C7: an expiry is on the connection, or applied, only for a call whose
\* add the server has already applied; a call that has not failed issues
\* its add on arrival and its expiry as soon as the add is acknowledged, and
\* a resolved call has had both applied.
C7_AddThenExpire ==
    /\ \A i \in 1..Len(conn) :
          conn[i].op = "expire" => "sadd" \in reqs[conn[i].req].applied
    /\ \A r \in TrackReqs :
          /\ "expire" \in reqs[r].applied => "sadd" \in reqs[r].applied
          /\ reqs[r].st = "done" => reqs[r].applied = {"sadd", "expire"}
          /\ reqs[r].st = "pending" =>
                \E i \in 1..Len(conn) :
                    /\ conn[i].req = r
                    /\ conn[i].op = (IF "sadd" \in reqs[r].applied
                                     THEN "expire" ELSE "sadd")

\* an acknowledged add whose expiry is on the connection behind it
C7_Witness ==
    \E i \in 1..Len(conn) :
        /\ conn[i].op = "expire"
        /\ reqs[conn[i].req].applied = {"sadd"}
        /\ reqs[conn[i].req].ip \in Members(store, conn[i].key)

ExpiryOf(s, k) == IF k \in DOMAIN s THEN s[k].expireAt ELSE NoExpiry

\* C8: add and expiry are separate steps: the step that applies a call's add
\* puts the identifier in the set and leaves the key's expiry as it was (none
\* for a key the add creates), and a rejection after the add leaves the
\* store as the add left it.
C8_AddAndExpireNotAtomic ==
    [][\A r \in TrackReqs :
          /\ Applies(r, "sadd") =>
                /\ reqs[r].ip \in Members(store', reqs[r].key)
                /\ "expire" \notin reqs'[r].applied
                /\ ExpiryOf(store', reqs[r].key) = ExpiryOf(store, reqs[r].key)
          /\ (reqs[r].st = "pending" /\ reqs'[r].st = "failed") =>
                store' = store]_vars

\* the add created the key, the expiry was rejected: a member and no expiry
C8_Witness ==
    \E r \in TrackReqs :
        /\ reqs[r].st = "failed" /\ reqs[r].applied = {"sadd"}
        /\ reqs[r].key \in DOMAIN store
        /\ reqs[r].ip \in store[reqs[r].key].members
        /\ store[reqs[r].key].expireAt = NoExpiry
        /\ \A x \in TrackReqs : reqs[x].st # "pending"

\* C9: once every track call made for the current day's key has resolved,
\* the day's set holds exactly the identifiers of those calls, in whatever
\* order their commands were processed.
C9_ConcurrentTracksConverge ==
    LET calls == {r \in TrackReqs : reqs[r].key = Today}
    IN  (\A r \in calls : reqs[r].st = "done") =>
            Members(store, Today) = {reqs[r].ip : r \in calls}

\* two overlapping calls with two identifiers, both resolved
C9_Witness ==
    /\ Len(reqs) = 2
    /\ \A r \in 1..2 : /\ reqs[r].kind = "track" /\ reqs[r].st = "done"
                       /\ reqs[r].key = Today
    /\ reqs[2].busy
    /\ Members(store, Today) = {reqs[1].ip, reqs[2].ip}
    /\ reqs[1].ip # reqs[2].ip

\* C11: a count taken while its key does not exist in the store is 0 and is
\* answered 200: before the first track call of the day, after a day boundary
\* whatever the previous day held, and after the window has expired.
C11_EmptyCountIsZero ==
    [][\A g \in CountReqs :
          (Applies(g, "scard") /\ reqs[g].key \notin DOMAIN store) =>
              /\ reqs'[g].count = 0
              /\ reqs'[g].status = 200]_vars

\* the previous day's key still holds visitors, today's count answered 0
C11_Witness ==
    /\ now >= 1
    /\ \E g \in CountReqs :
          /\ reqs[g].st = "done" /\ reqs[g].key = Today
          /\ reqs[g].count = 0 /\ reqs[g].status = 200
    /\ Today \notin DOMAIN store
    /\ \E k \in DOMAIN store : k # Today /\ store[k].members # {}

\* this step is the arrival of a GET /api/visitors/count
CountArrives ==
    /\ Len(reqs') = Len(reqs) + 1
    /\ reqs'[Len(reqs')].kind = "count"

\* this step settles the call of count request g
CountSettles(g) == reqs[g].st = "pending" /\ reqs'[g].st # "pending"

\* C12: no step of a count (its arrival, the server's processing of its
\* SCARD, its rejection) changes the keyspace: no key is created or removed,
\* no member added and no expiry moved.
C12_CountHasNoSideEffects ==
    [][(CountArrives \/ \E g \in CountReqs : CountSettles(g)) =>
          store' = store]_vars

\* a count was answered and the key's expiry still is the one its last write
\* set, an earlier instant than the read
C12_Witness ==
    /\ now >= 1
    /\ \E g \in CountReqs :
          /\ reqs[g].st = "done" /\ reqs[g].count = 1 /\ reqs[g].key = Today
    /\ Today \in DOMAIN store
    /\ store[Today].expireAt = FortyEightHoursFrom(DateNow(now - 1))

\* C13: a count whose store command was rejected has answered 500 and no
\* count, a count answers 200 only with a count of 0 or more, a rejected track
\* call leaves its POST at 200, and the step that rejects either leaves the
\* keyspace as it was.
C13_ReadErrorsPropagate ==
    /\ [](\A r \in 1..Len(reqs) :
            /\ (reqs[r].kind = "count" /\ reqs[r].st = "failed") =>
                  (reqs[r].status = 500 /\ reqs[r].count = 0 - 1)
            /\ (reqs[r].kind = "count" /\ reqs[r].status = 200) =>
                  (reqs[r].st = "done" /\ reqs[r].count >= 0)
            /\ (reqs[r].kind = "track" /\ reqs[r].st = "failed") =>
                  reqs[r].status = 200)
    /\ [][\A r \in 1..Len(reqs) :
            (reqs[r].st = "pending" /\ reqs'[r].st = "failed") =>
                store' = store]_vars

\* one rejected count answered 500, one rejected track call answered 200
C13_Witness ==
    \E g \in CountReqs, r \in TrackReqs :
        /\ reqs[g].st = "failed" /\ reqs[g].status = 500
        /\ reqs[r].st = "failed" /\ reqs[r].status = 200
        /\ {g, r} \subseteq logged

-----------------------------------------------------------------------------
(* Key derivation on its own: getTodayKey applied to pairs of instants     *)
(* around the UTC+9 day boundary, a leap day and a year end.               *)

KeyDays == {19723, 19724, 19782, 19783, 20088}

KeyMillis == {0, 15 * MsPerHour - 1, 15 * MsPerHour, MsPerDay - 1}

KeyInstants == [day : KeyDays, ms : KeyMillis]

InitKey ==
    /\ now = 0
    /\ store = <<>>
    /\ conn = <<>>
    /\ reqs = <<>>
    /\ logged = {}
    /\ kIn \in KeyInstants \X KeyInstants
    /\ kOut = <<>>
    /\ ipIn = NoHeaders
    /\ ipOut = <<>>
    /\ ApiIdle

DeriveKeys ==
    /\ kOut = <<>>
    /\ kOut' = <<getTodayKey(kIn[1]), getTodayKey(kIn[2])>>
    /\ UNCHANGED <<now, store, conn, reqs, logged, kIn, ipVars, apiVars>>

NextKey == DeriveKeys

SpecKey == InitKey /\ [][NextKey]_vars

\* the UTC+9 calendar day of an instant: it rolls over at 15:00:00.000Z
KstDayOf(t) == IF t.ms >= 15 * MsPerHour THEN t.day + 1 ELSE t.day

\* the calendar, for the days the check draws
CalendarDate ==
    (19723 :> "2024-01-01") @@ (19724 :> "2024-01-02") @@
    (19725 :> "2024-01-03") @@ (19782 :> "2024-02-29") @@
    (19783 :> "2024-03-01") @@ (19784 :> "2024-03-02") @@
    (20088 :> "2024-12-31") @@ (20089 :> "2025-01-01")

\* C10: two instants of the same UTC+9 calendar day derive the same key,
\* two instants of different UTC+9 days derive different keys (so the last
\* millisecond before 15:00Z and 15:00Z itself differ), and the key is
\* 'snuggle:visitors:' followed by the UTC+9 date as YYYY-MM-DD.
C10_KeyDayBounded ==
    kOut # <<>> =>
        /\ (KstDayOf(kIn[1]) = KstDayOf(kIn[2])) <=> (kOut[1] = kOut[2])
        /\ kOut[1] = "snuggle:visitors:" \o CalendarDate[KstDayOf(kIn[1])]
        /\ kOut[2] = "snuggle:visitors:" \o CalendarDate[KstDayOf(kIn[2])]

\* the boundary case: 2024-01-01T14:59:59.999Z against 2024-01-01T15:00:00Z
C10_Witness ==
    /\ kIn = << [day |-> 19723, ms |-> 15 * MsPerHour - 1],
                [day |-> 19723, ms |-> 15 * MsPerHour] >>
    /\ kOut = <<"snuggle:visitors:2024-01-01", "snuggle:visitors:2024-01-02">>

-----------------------------------------------------------------------------
(* Identifier resolution on its own: the expression of the POST handler    *)
(* applied to header values of up to MaxPieces pieces and to a present or  *)
(* absent socket address.                                                  *)

MaxPieces == 3

IpPieces == { "9.9.9.9", ",", " 10.0.0.1" }

HeaderStrings == UNION { [1..n -> IpPieces] : n \in 0..MaxPieces }

HeaderValues == { undefined } \cup { {h} : h \in HeaderStrings }

InitIp ==
    /\ now = 0
    /\ store = <<>>
    /\ conn = <<>>
    /\ reqs = <<>>
    /\ logged = {}
    /\ kIn = <<NoInstant, NoInstant>>
    /\ kOut = <<>>
    /\ ipIn \in [forwarded : HeaderValues, remote : RemoteAddresses]
    /\ ipOut = <<>>
    /\ ApiIdle

ResolveIps ==
    /\ ipOut = <<>>
    /\ ipOut' = <<ResolveIp(ipIn.forwarded, ipIn.remote)>>
    /\ UNCHANGED <<now, store, conn, reqs, logged, keyVars, ipIn, apiVars>>

NextIp == ResolveIps

SpecIp == InitIp /\ [][NextIp]_vars

\* the header value drawn, when the header is present
HeaderOf(in) == CHOOSE h \in in.forwarded : TRUE

\* the pieces of h before its first comma
BeforeComma(h) ==
    LET stops == { i \in 1..Len(h) : h[i] = "," } \cup { Len(h) + 1 }
        n == CHOOSE i \in stops : \A j \in stops : i <= j
    IN  SubSeq(h, 1, n - 1)

RECURSIVE Joined(_)
Joined(ps) == IF ps = <<>> THEN "" ELSE Head(ps) \o Joined(Tail(ps))

SocketOrLoopback(in) == IF in.remote # "" THEN in.remote ELSE "127.0.0.1"

\* C14 as stated: whenever the X-Forwarded-For header is present the
\* identifier is its first comma-separated value; otherwise it is the socket
\* address, or 127.0.0.1 when there is none.
C14_FirstValueWhenPresent ==
    ipOut # <<>> =>
        IF ipIn.forwarded # undefined
        THEN ipOut[1] = Joined(BeforeComma(HeaderOf(ipIn)))
        ELSE ipOut[1] = SocketOrLoopback(ipIn)

\* C14 amended: the identifier is the first comma-separated value of the
\* X-Forwarded-For header when the header is present and not empty; with an
\* absent or empty header it is the socket address, or 127.0.0.1 when there
\* is none. 'X-Forwarded-For: 9.9.9.9, 10.0.0.1' records 9.9.9.9.
C14_IdentifierResolution ==
    ipOut # <<>> =>
        /\ IF ipIn.forwarded # undefined /\ HeaderOf(ipIn) # <<>>
           THEN ipOut[1] = Joined(BeforeComma(HeaderOf(ipIn)))
           ELSE ipOut[1] = SocketOrLoopback(ipIn)
        /\ ipIn.forwarded = {<<"9.9.9.9", ",", " 10.0.0.1">>} =>
               ipOut[1] = "9.9.9.9"
        /\ (ipIn.forwarded = undefined /\ ipIn.remote = "") =>
               ipOut[1] = "127.0.0.1"

C14_Witness ==
    /\ ipIn.forwarded = {<<"9.9.9.9", ",", " 10.0.0.1">>}
    /\ ipIn.remote = "5.6.7.8"
    /\ ipOut = <<"9.9.9.9">>

-----------------------------------------------------------------------------
(* middleware/auth: authMiddleware in front of the protected routes        *)
(* An Authorization header is undefined or a string, given as the sequence *)
(* of its pieces with " " a piece of its own.                              *)

visitorVars == <<now, store, conn, reqs, logged>>

VisitorIdle ==
    /\ now = 0
    /\ store = <<>>
    /\ conn = <<>>
    /\ reqs = <<>>
    /\ logged = {}

PureIdle ==
    /\ kIn = <<NoInstant, NoInstant>>
    /\ kOut = <<>>
    /\ ipIn = NoHeaders
    /\ ipOut = <<>>

pageVars == <<pgIn, pgOut>>

PageIdle == pgIn = NoQuery /\ pgOut = <<>>

dbVars == <<db, apiCalls>>

DbIdle == db = InitialDb /\ apiCalls = <<>>

MaxAuth == 2

Users == { "u1", "u2" }

\* the sessions the identity provider knows: access token -> user
TokenUser(token) ==
    CASE token = "tokA" -> { "u1" }
      [] token = "tokB" -> { "u2" }
      [] OTHER -> {}

AuthHeaders ==
    { undefined, {<<>>},
      {<<"Basic", " ", "tokA">>}, {<<"bearer", " ", "tokA">>},
      {<<"Bearer">>}, {<<"Bearer", " ">>},
      {<<"Bearer", " ", "tokA">>}, {<<"Bearer", " ", "tokB">>},
      {<<"Bearer", " ", "stale">>}, {<<"Bearer", " ", "tokB", " ", "x">>} }

StartsWithScheme(h) == Len(h) >= 2 /\ h[2] = " "

\* authHeader.startsWith('Bearer ')
StartsWithBearer(h) == Len(h) >= 2 /\ h[1] = "Bearer" /\ h[2] = " "

RECURSIVE SplitSpaceFirst(_)
\* h.split(' ')[0]
SplitSpaceFirst(h) ==
    IF h = <<>> \/ Head(h) = " " THEN ""
    ELSE Head(h) \o SplitSpaceFirst(Tail(h))

RECURSIVE AfterSpace(_)
\* what follows the first ' ' of h
AfterSpace(h) ==
    IF h = <<>> THEN <<>>
    ELSE IF Head(h) = " " THEN Tail(h) ELSE AfterSpace(Tail(h))

\* authHeader.split(' ')[1], for a header holding a ' '
SplitSpaceSecond(h) == SplitSpaceFirst(AfterSpace(h))

\* what supabase.auth.getUser(token) may give: a user for a live session,
\* an error, neither, or a rejected promise
GetUserOutcomes(token) ==
    { [kind |-> "data", user |-> {u}, error |-> FALSE] : u \in TokenUser(token) }
    \cup { [kind |-> "data", user |-> {}, error |-> TRUE],
           [kind |-> "data", user |-> {}, error |-> FALSE],
           [kind |-> "throw", user |-> {}, error |-> FALSE] }

NoOutcome == [kind |-> "none", user |-> {}, error |-> FALSE]

\* a request in the middleware:
\*   pc     "getUser" while the provider is awaited, "next" once next() was
\*          called, "done" once the middleware answered
\*   got    what the provider gave
\*   user   req.user.id, as the option set
\*   status the status the middleware sent, 0 if none
\*   ran    the route handler was entered
AuthRequest(h, pc, token, status) ==
    [header |-> h, pc |-> pc, token |-> token, got |-> NoOutcome,
     user |-> {}, status |-> status, ran |-> FALSE]

\* authMiddleware up to its await
AuthArrive(h) ==
    /\ Len(auth) < MaxAuth
    /\ LET hv == CHOOSE x \in h : TRUE
       IN  IF ~Truthy(h) \/ ~StartsWithBearer(hv)
           THEN auth' = Append(auth, AuthRequest(h, "done", "", 401))
           ELSE auth' = Append(auth,
                           AuthRequest(h, "getUser", SplitSpaceSecond(hv), 0))
    /\ UNCHANGED <<visitorVars, keyVars, ipVars, pageVars, dbVars>>

\* authMiddleware from the provider's answer on
AuthGetUser(i, o) ==
    /\ auth[i].pc = "getUser"
    /\ auth' = [auth EXCEPT ![i] =
                  IF o.kind = "throw" \/ o.error \/ o.user = {}
                  THEN [@ EXCEPT !.pc = "done", !.got = o, !.status = 401]
                  ELSE [@ EXCEPT !.pc = "next", !.got = o, !.user = o.user,
                                 !.ran = TRUE]]
    /\ UNCHANGED <<visitorVars, keyVars, ipVars, pageVars, dbVars>>

InitAuth ==
    /\ VisitorIdle
    /\ PureIdle
    /\ auth = <<>>
    /\ PageIdle
    /\ DbIdle

NextAuth ==
    \/ \E h \in AuthHeaders : AuthArrive(h)
    \/ \E i \in 1..Len(auth) : \E o \in GetUserOutcomes(auth[i].token) :
           AuthGetUser(i, o)

SpecAuth == InitAuth /\ [][NextAuth]_vars

\* C16: the handler behind authMiddleware is entered only for a request
\* whose Authorization header starts with 'Bearer ' and for whose token the
\* provider returned a user and no error, and then req.user.id is that
\* user's id; every other request is answered 401 and never reaches the
\* handler.
C16_AuthGate ==
    \A i \in 1..Len(auth) :
        LET a == auth[i]
            h == CHOOSE x \in a.header : TRUE
            bearer == /\ a.header \notin { undefined, {<<>>} }
                      /\ Len(h) >= 2
                      /\ <<h[1], h[2]>> = <<"Bearer", " ">>
        IN  /\ a.ran =>
                /\ bearer
                /\ a.got.kind = "data" /\ ~a.got.error /\ a.got.user # {}
                /\ a.user = a.got.user
                /\ a.user \subseteq TokenUser(h[3])
                /\ a.status = 0
            /\ (a.pc # "getUser" /\ ~(bearer /\ a.got.kind = "data"
                                     /\ ~a.got.error /\ a.got.user # {})) =>
                   a.status = 401 /\ ~a.ran /\ a.user = {}
            /\ (a.pc = "getUser") => (~a.ran /\ a.status = 0)

C16_Witness ==
    /\ Len(auth) = 2
    /\ auth[1].header = {<<"Bearer", " ", "tokB", " ", "x">>}
    /\ auth[1].ran /\ auth[1].user = { "u2" }
    /\ auth[2].header = {<<"Bearer", " ", "tokA">>}
    /\ auth[2].got.error /\ auth[2].status = 401 /\ ~auth[2].ran

-----------------------------------------------------------------------------
(* Pagination of the list endpoints                                        *)
(* A query parameter is undefined or a string, given as the sequence of    *)
(* its characters.                                                         *)

Digits == { "0", "1", "2", "3", "4", "5", "6", "7", "8", "9" }

DigitValue(c) ==
    CASE c = "0" -> 0 [] c = "1" -> 1 [] c = "2" -> 2 [] c = "3" -> 3
      [] c = "4" -> 4 [] c = "5" -> 5 [] c = "6" -> 6 [] c = "7" -> 7
      [] c = "8" -> 8 [] c = "9" -> 9

RECURSIVE TrimStart(_)
TrimStart(cs) ==
    IF cs # <<>> /\ Head(cs) = " " THEN TrimStart(Tail(cs)) ELSE cs

RECURSIVE LeadingDigits(_)
LeadingDigits(cs) ==
    IF cs # <<>> /\ Head(cs) \in Digits
    THEN <<Head(cs)>> \o LeadingDigits(Tail(cs))
    ELSE <<>>

RECURSIVE DecimalValue(_)
DecimalValue(ds) ==
    IF ds = <<>> THEN 0
    ELSE 10 * DecimalValue(SubSeq(ds, 1, Len(ds) - 1)) + DigitValue(ds[Len(ds)])

\* parseInt(str): leading blanks, a sign, then the longest run of decimal
\* digits; NaN (the empty set) when there is no digit. undefined reads as
\* the string 'undefined'.
parseInt(str) ==
    IF str = undefined THEN {}
    ELSE LET cs == TrimStart(CHOOSE x \in str : TRUE)
             signed == cs # <<>> /\ Head(cs) \in { "-", "+" }
             ds == LeadingDigits(IF signed THEN Tail(cs) ELSE cs)
         IN  IF ds = <<>> THEN {}
             ELSE IF signed /\ Head(cs) = "-" THEN { 0 - DecimalValue(ds) }
             ELSE { DecimalValue(ds) }

\* n || d for the result of parseInt: NaN and 0 are falsy
OrDefault(n, d) == IF n = {} \/ n = {0} THEN d ELSE CHOOSE v \in n : TRUE

Max(a, b) == IF a >= b THEN a ELSE b

Min(a, b) == IF a <= b THEN a ELSE b

validatePagination(limitStr, offsetStr) ==
    [limit |-> Min(Max(1, OrDefault(parseInt(limitStr), 20)), 100),
     offset |-> Max(0, OrDefault(parseInt(offsetStr), 0))]

\* .range(offset, offset + limit - 1)
Range(pg) == [from |-> pg.offset, to |-> pg.offset + pg.limit - 1]

QueryStrings ==
    { undefined, {<<>>}, {<<"a", "b", "c">>}, {<<"0">>}, {<<"7">>},
      {<<"-", "5">>}, {<<"+", "3">>}, {<<" ", "4", "2">>},
      {<<"1", "2", "p", "x">>}, {<<"1", "0", "0">>}, {<<"1", "0", "1">>},
      {<<"1", "0", "0", "0", "0", "0", "0">>} }

Paged(endpoint, pg) ==
    [endpoint |-> endpoint, limit |-> pg.limit, offset |-> pg.offset,
     from |-> Range(pg).from, to |-> Range(pg).to]

\* GET /api/search/posts and /api/search/blogs
SearchList(endpoint) ==
    /\ pgOut = <<>>
    /\ pgOut' = <<Paged(endpoint,
                        validatePagination(pgIn.limit, pgIn.offset))>>
    /\ UNCHANGED <<visitorVars, keyVars, ipVars, auth, pgIn, dbVars>>

\* GET /api/forum
ForumList ==
    /\ pgOut = <<>>
    /\ pgOut' = <<Paged("forum",
                        validatePagination(pgIn.limit, pgIn.offset))>>
    /\ UNCHANGED <<visitorVars, keyVars, ipVars, auth, pgIn, dbVars>>

\* GET /api/posts
PostList ==
    /\ pgOut = <<>>
    /\ pgOut' = <<Paged("posts",
                        [limit |-> OrDefault(parseInt(pgIn.limit), 20),
                         offset |-> OrDefault(parseInt(pgIn.offset), 0)])>>
    /\ UNCHANGED <<visitorVars, keyVars, ipVars, auth, pgIn, dbVars>>

\* GET /api/blogs/new: .limit(limit), rows 0 .. limit - 1
NewBlogList ==
    /\ pgOut = <<>>
    /\ pgOut' = <<Paged("blogs/new",
                        [limit |-> OrDefault(parseInt(pgIn.limit), 3),
                         offset |-> 0])>>
    /\ UNCHANGED <<visitorVars, keyVars, ipVars, auth, pgIn, dbVars>>

InitPage ==
    /\ VisitorIdle
    /\ PureIdle
    /\ auth = <<>>
    /\ pgIn \in [limit : QueryStrings, offset : QueryStrings]
    /\ pgOut = <<>>
    /\ DbIdle

NextPage ==
    \/ \E e \in { "search/posts", "search/blogs" } : SearchList(e)
    \/ ForumList
    \/ PostList
    \/ NewBlogList

SpecPage == InitPage /\ [][NextPage]_vars

\* C18: for every endpoint taking limit and offset and every input, the
\* effective limit is in 1..100, the effective offset is at least 0, and
\* the range [offset, offset + limit - 1] requested from the database spans
\* at most 100 rows.
C18_PaginationClamped ==
    pgOut # <<>> =>
        /\ pgOut[1].limit \in 1..100
        /\ pgOut[1].offset >= 0
        /\ pgOut[1].to - pgOut[1].from + 1 <= 100

\* C18 for the endpoints that go through validatePagination: search and
\* forum are clamped, with limit 20 and offset 0 when the parameter is
\* missing, not a number or zero.
C18_ValidatedEndpointsClamped ==
    (pgOut # <<>> /\ pgOut[1].endpoint \notin { "posts", "blogs/new" }) =>
        /\ pgOut[1].limit \in 1..100
        /\ pgOut[1].offset >= 0
        /\ pgOut[1].from = pgOut[1].offset
        /\ pgOut[1].to - pgOut[1].from + 1 = pgOut[1].limit
        /\ pgIn.limit \in { undefined, {<<>>}, {<<"a", "b", "c">>}, {<<"0">>} }
               => pgOut[1].limit = 20
        /\ pgIn.offset \in { undefined, {<<>>}, {<<"a", "b", "c">>}, {<<"0">>} }
               => pgOut[1].offset = 0
        /\ pgIn.limit = {<<"1", "0", "0", "0", "0", "0", "0">>}
               => pgOut[1].limit = 100
        /\ pgIn.limit = {<<"-", "5">>} => pgOut[1].limit = 1

-----------------------------------------------------------------------------
(* The database-backed handlers                                            *)
(* A handler reads through the anonymous client, decides, and then issues  *)
(* its writes through the caller's client, awaiting each. A call answers   *)
(* at once when a check refuses it; otherwise it carries the writes it     *)
(* still has to issue (its plan) and answers when the plan ends. The reads *)
(* of one call are taken at one instant; the writes of concurrent calls    *)
(* interleave. The database enforces nothing of its own: the repository    *)
(* holds no schema, so uniqueness and ownership rest on the handlers.      *)

MaxCalls == 2

\* .eq(f, v) for every field f of w
Matches(row, w) == \A f \in DOMAIN w : row[f] = w[f]

Select(t, w) == { row \in t : Matches(row, w) }

\* .single() and .maybeSingle(): data is the row when exactly one row
\* matched and null otherwise
Single(rows) == IF Cardinality(rows) = 1 THEN rows ELSE null

Data(opt) == CHOOSE r \in opt : TRUE

\* the writes of the query builder; `checked` tells whether the handler
\* looks at the error of the write
Insert(table, rows, checked) ==
    [kind |-> "insert", table |-> table, rows |-> rows, w |-> <<>>,
     set |-> <<>>, checked |-> checked]

Update(table, set, w, checked) ==
    [kind |-> "update", table |-> table, rows |-> {}, w |-> w,
     set |-> set, checked |-> checked]

\* update(...).eq(...).select().single(): the handler is handed an error
\* unless exactly one row came back
UpdateSingle(table, set, w) ==
    [kind |-> "updateSingle", table |-> table, rows |-> {}, w |-> w,
     set |-> set, checked |-> TRUE]

Delete(table, w, checked) ==
    [kind |-> "delete", table |-> table, rows |-> {}, w |-> w,
     set |-> <<>>, checked |-> checked]

\* upsert with onConflict on the fields of w
Upsert(table, row, w, checked) ==
    [kind |-> "upsert", table |-> table, rows |-> {row}, w |-> w,
     set |-> <<>>, checked |-> checked]

Assign(row, set) ==
    [f \in DOMAIN row |-> IF f \in DOMAIN set THEN set[f] ELSE row[f]]

\* the rows as the database stores them: a created_at the handler leaves
\* out is filled in at the insert, later inserts stamping later
Created(t, rows) ==
    { IF "created_at" \in DOMAIN r
      THEN [r EXCEPT !.created_at =
               IF t = {} THEN 0
               ELSE 1 + CHOOSE m \in { x.created_at : x \in t } :
                            \A x \in t : x.created_at <= m]
      ELSE r : r \in rows }

\* the database after write c
ApplyWrite(d, c) ==
    [d EXCEPT ![c.table] =
        CASE c.kind = "insert" -> @ \cup Created(@, c.rows)
          [] c.kind = "delete" -> @ \ Select(@, c.w)
          [] c.kind \in { "update", "updateSingle" } ->
                { IF Matches(row, c.w) THEN Assign(row, c.set) ELSE row :
                      row \in @ }
          [] c.kind = "upsert" -> (@ \ Select(@, c.w)) \cup c.rows]

\* the id the database gives to the row inserted by call i
NewId(i) == 100 + i

\* a call: the authenticated user, the blog the handler resolved ("" when
\* it resolved none), the writes still to issue, the status to send when
\* they are through, the status sent (0 while none), the rows sent
ApiCall(op, user, blog_id, plan, ok, status) ==
    [op |-> op, user |-> user, blog_id |-> blog_id, plan |-> plan,
     ok |-> ok, status |-> status, out |-> {}]

Refused(op, user, blog_id, status) ==
    ApiCall(op, user, blog_id, <<>>, status, status)

Proceeds(op, user, blog_id, plan, ok) ==
    ApiCall(op, user, blog_id, plan, ok, 0)

BlogMissing(blog, user) == blog = null

\* !blog || blog.user_id !== user.id
NotAuthorized(blog, user) == blog = null \/ Data(blog).user_id # user

BlogById(d, blog_id) == Single(Select(d.blogs, [id |-> blog_id]))

\* call c once its next write has come back: the handler answers after the
\* last
Advance(c) ==
    [c EXCEPT !.plan = Tail(c.plan),
              !.status = IF Tail(c.plan) = <<>> THEN c.ok ELSE 0]

NeverRejected(d, c) == FALSE

\* upsert(..., { onConflict: 'blog_id' }) names a unique index on the
\* blog_id of blog_skin_applications: the database rejects the insert of a
\* second row for a blog
Rejected(d, c) ==
    /\ c.kind = "insert"
    /\ c.table = "blog_skin_applications"
    /\ \E r \in c.rows, x \in d[c.table] : x.blog_id = r.blog_id

\* .single() after a write that did not touch exactly one row
NotOne(d, c) ==
    c.kind = "updateSingle" /\ Cardinality(Select(d[c.table], c.w)) # 1

\* the next write of call i is applied
DbWrite(i) ==
    /\ apiCalls[i].plan # <<>>
    /\ ~Rejected(db, Head(apiCalls[i].plan))
    /\ db' = ApplyWrite(db, Head(apiCalls[i].plan))
    /\ apiCalls' = [apiCalls EXCEPT ![i] =
                      IF NotOne(db, Head(@.plan))
                      THEN [@ EXCEPT !.plan = <<>>, !.status = 500]
                      ELSE Advance(@)]
    /\ UNCHANGED <<visitorVars, keyVars, ipVars, auth, pageVars>>

\* the next write of call i comes back with an error and changes nothing: a
\* handler that looks at the error answers 500, one that does not goes on
DbWriteError(i) ==
    /\ apiCalls[i].plan # <<>>
    /\ apiCalls' = [apiCalls EXCEPT ![i] =
                      IF Head(@.plan).checked
                      THEN [@ EXCEPT !.plan = <<>>, !.status = 500]
                      ELSE Advance(@)]
    /\ UNCHANGED <<visitorVars, keyVars, ipVars, auth, pageVars, db>>

-----------------------------------------------------------------------------
(* routes/categories                                                       *)
(* A name is the sequence of its characters.                               *)

toLowerCase(c) == CASE c = "A" -> "a" [] c = "B" -> "b" [] OTHER -> c

RECURSIVE TrimEnd(_)
TrimEnd(cs) ==
    IF cs # <<>> /\ cs[Len(cs)] = " "
    THEN TrimEnd(SubSeq(cs, 1, Len(cs) - 1))
    ELSE cs

\* String.prototype.trim
trim(cs) == TrimEnd(TrimStart(cs))

RECURSIVE Like(_, _)
\* value ILIKE pattern: % stands for any run of characters, _ for any one
\* character, every other character for itself in either case
Like(value, pattern) ==
    IF pattern = <<>> THEN value = <<>>
    ELSE IF Head(pattern) = "%"
         THEN \/ Like(value, Tail(pattern))
              \/ value # <<>> /\ Like(Tail(value), pattern)
    ELSE /\ value # <<>>
         /\ \/ Head(pattern) = "_"
            \/ toLowerCase(Head(value)) = toLowerCase(Head(pattern))
         /\ Like(Tail(value), Tail(pattern))

\* .ilike('name', pattern)
ilike(value, pattern) == Like(value, pattern)

BlogIds == { "", "b1", "b2", "b9" }

CategoryNames ==
    { <<>>, <<"a", "b">>, <<"A", "B">>, <<" ", "a", "b", " ">>, <<"a", "%">> }

\* POST /api/categories
CreateCategory(user, blog_id, name) ==
    /\ Len(apiCalls) < MaxCalls
    /\ LET op == "POST categories"
           blog == BlogById(db, blog_id)
           existing ==
               Single({ c \in Select(db.categories, [blog_id |-> blog_id]) :
                          ilike(c.name, trim(name)) })
           row == [id |-> NewId(Len(apiCalls) + 1), blog_id |-> blog_id,
                   name |-> trim(name)]
       IN  apiCalls' = Append(apiCalls,
               IF blog_id = "" \/ name = <<>>
               THEN Refused(op, user, blog_id, 400)
               ELSE IF NotAuthorized(blog, user)
               THEN Refused(op, user, blog_id, 403)
               ELSE IF existing # null
               THEN Refused(op, user, blog_id, 400)
               ELSE Proceeds(op, user, blog_id,
                             <<Insert("categories", {row}, TRUE)>>, 201))
    /\ UNCHANGED <<visitorVars, keyVars, ipVars, auth, pageVars, db>>

CategoryIds == { 1, 2, 9, NewId(1) }

\* DELETE /api/categories/:id
DeleteCategory(user, id) ==
    /\ Len(apiCalls) < MaxCalls
    /\ LET op == "DELETE categories"
           category == Single(Select(db.categories, [id |-> id]))
           blog == BlogById(db, Data(category).blog_id)
       IN  apiCalls' = Append(apiCalls,
               IF category = null
               THEN Refused(op, user, "", 404)
               ELSE IF NotAuthorized(blog, user)
               THEN Refused(op, user, Data(category).blog_id, 403)
               ELSE Proceeds(op, user, Data(category).blog_id,
                             <<Delete("categories", [id |-> id], TRUE)>>, 200))
    /\ UNCHANGED <<visitorVars, keyVars, ipVars, auth, pageVars, db>>

InitDb ==
    /\ VisitorIdle
    /\ PureIdle
    /\ auth = <<>>
    /\ PageIdle
    /\ db = InitialDb
    /\ apiCalls = <<>>

NextCat ==
    \/ \E u \in Users, b \in BlogIds, n \in CategoryNames :
           CreateCategory(u, b, n)
    \/ \E u \in Users, id \in CategoryIds : DeleteCategory(u, id)
    \/ \E i \in 1..Len(apiCalls) : DbWrite(i)
    \/ \E i \in 1..Len(apiCalls) : DbWriteError(i)

SpecCat == InitDb /\ [][NextCat]_vars

\* C20: no blog ever holds two categories whose trimmed names are equal
\* ignoring case, whatever the sequence and interleaving of
\* POST /api/categories calls.
C20_CategoryNamesUnique ==
    \A c1, c2 \in db.categories :
        (c1 # c2 /\ c1.blog_id = c2.blog_id) =>
            [k \in DOMAIN trim(c1.name) |-> toLowerCase(trim(c1.name)[k])]
                # [k \in DOMAIN trim(c2.name) |-> toLowerCase(trim(c2.name)[k])]

-----------------------------------------------------------------------------
(* routes/profile: soft deletion of the account and of a blog              *)

\* new Date().toISOString() in the k-th write of call i, later calls
\* stamping later
Stamp(i, k) == { 10 * i + k }

\* DELETE /api/profile
DeleteAccount(user) ==
    /\ Len(apiCalls) < MaxCalls
    /\ LET i == Len(apiCalls) + 1
       IN  apiCalls' = Append(apiCalls,
               Proceeds("DELETE profile", user, "",
                   << Update("profiles", [deleted_at |-> Stamp(i, 1)],
                             [id |-> user], TRUE),
                      Update("blogs", [deleted_at |-> Stamp(i, 2)],
                             [user_id |-> user, deleted_at |-> null], FALSE) >>,
                   200))
    /\ UNCHANGED <<visitorVars, keyVars, ipVars, auth, pageVars, db>>

RestoreAccountAndBlogs(user) ==
    /\ Len(apiCalls) < MaxCalls
    /\ apiCalls' = Append(apiCalls,
           Proceeds("POST profile/restore", user, "",
               << Update("profiles", [deleted_at |-> null],
                         [id |-> user], TRUE),
                  Update("blogs", [deleted_at |-> null],
                         [user_id |-> user], TRUE) >>,
               200))
    /\ UNCHANGED <<visitorVars, keyVars, ipVars, auth, pageVars, db>>

\* POST /api/profile/restore
RestoreAccount(user) ==
    /\ Len(apiCalls) < MaxCalls
    /\ apiCalls' = Append(apiCalls,
           Proceeds("POST profile/restore", user, "",
               << Update("profiles", [deleted_at |-> null],
                         [id |-> user], TRUE) >>,
               200))
    /\ UNCHANGED <<visitorVars, keyVars, ipVars, auth, pageVars, db>>

\* DELETE /api/profile/blog/:blogId
SoftDeleteBlog(user, blogId) ==
    /\ Len(apiCalls) < MaxCalls
    /\ LET op == "DELETE profile/blog"
           i == Len(apiCalls) + 1
           blog == BlogById(db, blogId)
       IN  apiCalls' = Append(apiCalls,
               IF NotAuthorized(blog, user)
               THEN Refused(op, user, blogId, 403)
               ELSE Proceeds(op, user, blogId,
                        << Update("blogs", [deleted_at |-> Stamp(i, 1)],
                                  [id |-> blogId], TRUE) >>,
                        200))
    /\ UNCHANGED <<visitorVars, keyVars, ipVars, auth, pageVars, db>>

\* POST /api/profile/blog/:blogId/restore
RestoreBlog(user, blogId) ==
    /\ Len(apiCalls) < MaxCalls
    /\ LET op == "POST profile/blog/restore"
           blog == BlogById(db, blogId)
       IN  apiCalls' = Append(apiCalls,
               IF NotAuthorized(blog, user)
               THEN Refused(op, user, blogId, 403)
               ELSE Proceeds(op, user, blogId,
                        << Update("blogs", [deleted_at |-> null],
                                  [id |-> blogId], TRUE) >>,
                        200))
    /\ UNCHANGED <<visitorVars, keyVars, ipVars, auth, pageVars, db>>

ParamBlogIds == { "b1", "b2", "b3", "b9" }

NextAccount ==
    \/ \E u \in Users : DeleteAccount(u)
    \/ \E u \in Users : RestoreAccount(u)
    \/ \E u \in Users, b \in ParamBlogIds : SoftDeleteBlog(u, b)
    \/ \E u \in Users, b \in ParamBlogIds : RestoreBlog(u, b)
    \/ \E i \in 1..Len(apiCalls) : DbWrite(i)
    \/ \E i \in 1..Len(apiCalls) : DbWriteError(i)

SpecAccount == InitDb /\ [][NextAccount]_vars

\* the call answers {success: true} in this step
Succeeds(i) == apiCalls[i].status = 0 /\ apiCalls'[i].status = 200

\* C17: whenever DELETE /api/profile answers {success: true}, the profile
\* of the caller has a non-null deleted_at and so has every blog of the
\* caller; a blog soft-deleted earlier keeps the deleted_at it had.
C17_SoftDeleteCascades ==
    [][\A i \in 1..Len(apiCalls) :
          (apiCalls[i].op = "DELETE profile" /\ Succeeds(i)) =>
              /\ \A p \in Select(db'.profiles, [id |-> apiCalls[i].user]) :
                     p.deleted_at # null
              /\ \A b \in Select(db'.blogs, [user_id |-> apiCalls[i].user]) :
                     b.deleted_at # null
              /\ \A b \in Select(db.blogs, [user_id |-> apiCalls[i].user]) :
                     b.deleted_at # null => b \in db'.blogs]_vars

-----------------------------------------------------------------------------
(* routes/posts: the mutating handlers                                     *)
(* A body field that may be left out is undefined or the set of its value. *)

\* category_ids.slice(0, 5)
Slice5(ids) == SubSeq(ids, 1, Min(5, Len(ids)))

\* category_ids.slice(0, 5).map(...): the rows linking post_id
PostCategories(post_id, ids) ==
    { [post_id |-> post_id, category_id |-> Slice5(ids)[k]] :
          k \in 1..Len(Slice5(ids)) }

\* POST /api/posts
CreatePost(user, blog_id, title, published, category_ids) ==
    /\ Len(apiCalls) < MaxCalls
    /\ LET op == "POST posts"
           id == NewId(Len(apiCalls) + 1)
           blog == BlogById(db, blog_id)
           row == [id |-> id, blog_id |-> blog_id, user_id |-> user,
                   title |-> trim(title),
                   published |-> IF published = undefined THEN TRUE
                                 ELSE Data(published),
                   created_at |-> 0]
           links == IF category_ids # <<>>
                    THEN << Insert("post_categories",
                                   PostCategories(id, category_ids), FALSE) >>
                    ELSE <<>>
       IN  apiCalls' = Append(apiCalls,
               IF blog_id = "" \/ title = <<>>
               THEN Refused(op, user, blog_id, 400)
               ELSE IF NotAuthorized(blog, user)
               THEN Refused(op, user, blog_id, 403)
               ELSE Proceeds(op, user, blog_id,
                             << Insert("posts", {row}, TRUE) >> \o links, 201))
    /\ UNCHANGED <<visitorVars, keyVars, ipVars, auth, pageVars, db>>

\* PATCH /api/posts/:id
UpdatePost(user, id, published, category_ids) ==
    /\ Len(apiCalls) < MaxCalls
    /\ LET op == "PATCH posts"
           post == Single(Select(db.posts, [id |-> id]))
           blog == BlogById(db, Data(post).blog_id)
           updateData == IF published = undefined THEN <<>>
                         ELSE [published |-> Data(published)]
           ids == Data(category_ids)
           links ==
               IF category_ids = undefined THEN <<>>
               ELSE << Delete("post_categories", [post_id |-> id], FALSE) >>
                    \o IF Len(ids) > 0
                       THEN << Insert("post_categories",
                                      PostCategories(id, ids), FALSE) >>
                       ELSE <<>>
       IN  apiCalls' = Append(apiCalls,
               IF post = null
               THEN Refused(op, user, "", 404)
               ELSE IF NotAuthorized(blog, user)
               THEN Refused(op, user, Data(post).blog_id, 403)
               ELSE Proceeds(op, user, Data(post).blog_id,
                        << UpdateSingle("posts", updateData, [id |-> id]) >>
                        \o links, 200))
    /\ UNCHANGED <<visitorVars, keyVars, ipVars, auth, pageVars, db>>

\* DELETE /api/posts/:id
DeletePost(user, id) ==
    /\ Len(apiCalls) < MaxCalls
    /\ LET op == "DELETE posts"
           post == Single(Select(db.posts, [id |-> id]))
           blog == BlogById(db, Data(post).blog_id)
       IN  apiCalls' = Append(apiCalls,
               IF post = null
               THEN Refused(op, user, "", 404)
               ELSE IF NotAuthorized(blog, user)
               THEN Refused(op, user, Data(post).blog_id, 403)
               ELSE Proceeds(op, user, Data(post).blog_id,
                             << Delete("posts", [id |-> id], TRUE) >>, 200))
    /\ UNCHANGED <<visitorVars, keyVars, ipVars, auth, pageVars, db>>

-----------------------------------------------------------------------------
(* routes/skins: the handlers that change the skin of a blog               *)

\* POST /api/skins/apply
ApplySkin(user, blog_id, skin_id) ==
    /\ Len(apiCalls) < MaxCalls
    /\ LET op == "POST skins/apply"
           blog == BlogById(db, blog_id)
           skin == Single(Select(db.blog_skins, [id |-> skin_id]))
           row == [blog_id |-> blog_id, skin_id |-> {skin_id},
                   custom_css_variables |-> null,
                   custom_layout_config |-> null]
       IN  apiCalls' = Append(apiCalls,
               IF blog_id = "" \/ skin_id = ""
               THEN Refused(op, user, blog_id, 400)
               ELSE IF NotAuthorized(blog, user)
               THEN Refused(op, user, blog_id, 403)
               ELSE IF skin = null
               THEN Refused(op, user, blog_id, 404)
               ELSE Proceeds(op, user, blog_id,
                        << Upsert("blog_skin_applications", row,
                                  [blog_id |-> blog_id], TRUE) >>, 200))
    /\ UNCHANGED <<visitorVars, keyVars, ipVars, auth, pageVars, db>>

\* PATCH /api/skins/customize/:blogId
CustomizeSkin(user, blogId, custom_css_variables, custom_layout_config) ==
    /\ Len(apiCalls) < MaxCalls
    /\ LET op == "PATCH skins/customize"
           blog == BlogById(db, blogId)
           existing == Single(Select(db.blog_skin_applications,
                                     [blog_id |-> blogId]))
           defaultSkin == Single(Select(db.blog_skins,
                                        [name |-> DefaultSkinName,
                                         is_system |-> TRUE]))
           body == [custom_css_variables |-> custom_css_variables,
                    custom_layout_config |-> custom_layout_config]
           \* a field left undefined is not sent
           sent == [f \in { g \in DOMAIN body : body[g] # undefined } |->
                       body[f]]
           row == [blog_id |-> blogId,
                   skin_id |-> { k.id : k \in defaultSkin },
                   custom_css_variables |-> custom_css_variables,
                   custom_layout_config |-> custom_layout_config]
       IN  apiCalls' = Append(apiCalls,
               IF NotAuthorized(blog, user)
               THEN Refused(op, user, blogId, 403)
               ELSE IF existing # null
               THEN Proceeds(op, user, blogId,
                        << UpdateSingle("blog_skin_applications", sent,
                                        [blog_id |-> blogId]) >>, 200)
               ELSE Proceeds(op, user, blogId,
                        << Insert("blog_skin_applications", {row}, TRUE) >>,
                        200))
    /\ UNCHANGED <<visitorVars, keyVars, ipVars, auth, pageVars, db>>

\* DELETE /api/skins/blog/:blogId
ResetSkin(user, blogId) ==
    /\ Len(apiCalls) < MaxCalls
    /\ LET op == "DELETE skins/blog"
           blog == BlogById(db, blogId)
       IN  apiCalls' = Append(apiCalls,
               IF NotAuthorized(blog, user)
               THEN Refused(op, user, blogId, 403)
               ELSE Proceeds(op, user, blogId,
                        << Delete("blog_skin_applications",
                                  [blog_id |-> blogId], TRUE) >>, 200))
    /\ UNCHANGED <<visitorVars, keyVars, ipVars, auth, pageVars, db>>

-----------------------------------------------------------------------------
(* routes/forum: the handlers that write in the name of a blog             *)

\* POST /api/forum
CreateForum(user, title, blog_id) ==
    /\ Len(apiCalls) < MaxCalls
    /\ LET op == "POST forum"
           blog == BlogById(db, blog_id)
           row == [id |-> NewId(Len(apiCalls) + 1), title |-> trim(title),
                   user_id |-> user, blog_id |-> blog_id, view_count |-> 0]
       IN  apiCalls' = Append(apiCalls,
               IF title = <<>> \/ blog_id = ""
               THEN Refused(op, user, blog_id, 400)
               ELSE IF NotAuthorized(blog, user)
               THEN Refused(op, user, blog_id, 403)
               ELSE Proceeds(op, user, blog_id,
                             << Insert("forum", {row}, TRUE) >>, 201))
    /\ UNCHANGED <<visitorVars, keyVars, ipVars, auth, pageVars, db>>

\* POST /api/forum/comments; forum_id 0 stands for a missing forum_id
CreateComment(user, forum_id, blog_id, parent_id) ==
    /\ Len(apiCalls) < MaxCalls
    /\ LET op == "POST forum/comments"
           blog == BlogById(db, blog_id)
           row == [id |-> NewId(Len(apiCalls) + 1), forum_id |-> forum_id,
                   user_id |-> user, blog_id |-> blog_id,
                   parent_id |-> parent_id, created_at |-> 0]
       IN  apiCalls' = Append(apiCalls,
               IF forum_id = 0 \/ blog_id = ""
               THEN Refused(op, user, blog_id, 400)
               ELSE IF NotAuthorized(blog, user)
               THEN Refused(op, user, blog_id, 403)
               ELSE Proceeds(op, user, blog_id,
                             << Insert("forum_comments", {row}, TRUE) >>, 201))
    /\ UNCHANGED <<visitorVars, keyVars, ipVars, auth, pageVars, db>>

-----------------------------------------------------------------------------
(* Ownership: every handler that changes something of a blog               *)

\* the handlers treat every caller alike: the calls are those of u1, for
\* her own blogs b1 and b3, for b2 of u2 and for b9 that does not exist
Callers == { "u1" }

NextOwn ==
    \/ \E u \in Callers, b \in BlogIds, n \in { <<>>, <<"a", "b">> } :
           CreateCategory(u, b, n)
    \/ \E u \in Callers, id \in { 1, 2, 9 } : DeleteCategory(u, id)
    \/ \E u \in Callers, b \in BlogIds, t \in { <<>>, <<"t">> },
          ids \in { <<>>, <<1, 2, 3, 4, 5, 6>> } :
           CreatePost(u, b, t, undefined, ids)
    \/ \E u \in Callers, id \in { 1, 3, 9 }, pub \in { undefined, {FALSE} },
          ids \in { undefined, {<<2>>} } :
           UpdatePost(u, id, pub, ids)
    \/ \E u \in Callers, id \in { 1, 3, 9 } : DeletePost(u, id)
    \/ \E u \in Callers, b \in BlogIds, k \in { "", "s1", "s9" } :
           ApplySkin(u, b, k)
    \/ \E u \in Callers, b \in { "b1", "b2", "b9" } : CustomizeSkin(u, b, {"css"}, undefined)
    \/ \E u \in Callers, b \in { "b1", "b2", "b9" } : ResetSkin(u, b)
    \/ \E u \in Callers, b \in { "b1", "b2", "b9" } : SoftDeleteBlog(u, b)
    \/ \E u \in Callers, b \in { "b2", "b3", "b9" } : RestoreBlog(u, b)
    \/ \E u \in Callers, b \in BlogIds, t \in { <<>>, <<"t">> } :
           CreateForum(u, t, b)
    \/ \E u \in Callers, b \in BlogIds, f \in { 0, 7 } :
           CreateComment(u, f, b, null)
    \/ \E i \in 1..Len(apiCalls) : DbWrite(i)
    \/ \E i \in 1..Len(apiCalls) : DbWriteError(i)

SpecOwn == InitDb /\ [][NextOwn]_vars

\* the blog exists and belongs to the user
Owns(user, blog_id) ==
    \E b \in db.blogs : b.id = blog_id /\ b.user_id = user

\* the rows of table t that a step adds, removes or rewrites
Changed(t) == (db[t] \ db'[t]) \cup (db'[t] \ db[t])

\* the blog a row belongs to; a link row belongs to the blog of its post
RowBlog(t, row) ==
    CASE t = "blogs" -> row.id
      [] t = "post_categories" ->
             LET posts == { p \in InitialDb.posts \cup db.posts :
                              p.id = row.post_id }
             IN  IF posts = {} THEN "" ELSE (CHOOSE p \in posts : TRUE).blog_id
      [] t \in { "profiles", "blog_skins" } -> ""
      [] OTHER -> row.blog_id

\* call i has answered without having issued a write
AnsweredUnwritten(c) ==
    c.plan = <<>> /\ c.status \in { 400, 403, 404 }

\* the handlers that look a row up before they know the blog
ByRowOps == { "PATCH posts", "DELETE posts", "DELETE categories" }

\* the handlers that validate the body before they look the blog up
BodyOps ==
    { "POST categories", "POST posts", "POST skins/apply", "POST forum",
      "POST forum/comments" }

-----------------------------------------------------------------------------
(* The endpoints that return posts                                         *)
(* A read handler runs its queries and answers in one step; the rows it    *)
(* sends are the rows as the database held them at that instant.           *)

\* authHeader?.startsWith('Bearer ')
Bearer(h) == Truthy(h) /\ StartsWithBearer(Data(h))

\* the user the request really comes from: the owner of its token, "" when
\* there is no live token
Reader(h) ==
    IF Bearer(h) /\ TokenUser(SplitSpaceSecond(Data(h))) # {}
    THEN Data(TokenUser(SplitSpaceSecond(Data(h))))
    ELSE ""

Answer(op, user, status, out) ==
    [ApiCall(op, user, "", <<>>, status, status) EXCEPT !.out = out]

IsAuthenticated(user, blog) == user # {}

\* user?.id === blog.user_id and blog?.user_id === user.id
IsOwner(user, blog) ==
    user # {} /\ blog # null /\ Data(blog).user_id = Data(user)

ReaderHeaders ==
    { undefined, {<<"Basic", " ", "tokA">>}, {<<"Bearer", " ", "tokA">>},
      {<<"Bearer", " ", "tokB">>}, {<<"Bearer", " ", "stale">>} }

\* GET /api/posts/:id; o is the answer of the provider, asked only for an
\* unpublished post and a Bearer header
GetPost(h, id, o) ==
    /\ Len(apiCalls) < MaxCalls
    /\ LET op == "GET posts/:id"
           post == Single(Select(db.posts, [id |-> id]))
           blog == BlogById(db, Data(post).blog_id)
           asked == ~Data(post).published /\ Bearer(h)
           isOwner == asked /\ IsOwner(o.user, blog)
       IN  /\ o \in IF post # null /\ blog # null /\ asked
                    THEN GetUserOutcomes(SplitSpaceSecond(Data(h)))
                    ELSE { NoOutcome }
           /\ apiCalls' = Append(apiCalls,
                  IF post = null \/ blog = null
                  THEN Answer(op, Reader(h), 404, {})
                  ELSE IF o.kind = "throw"
                  THEN Answer(op, Reader(h), 500, {})
                  ELSE IF ~Data(post).published /\ ~isOwner
                  THEN Answer(op, Reader(h), 404, {})
                  ELSE Answer(op, Reader(h), 200, post))
    /\ UNCHANGED <<visitorVars, keyVars, ipVars, auth, pageVars, db>>

\* GET /api/posts/blog/:blogId; o is the answer of the provider, asked only
\* for showAll=true and a Bearer header
ListBlogPosts(h, blogId, showAll, o) ==
    /\ Len(apiCalls) < MaxCalls
    /\ LET op == IF showAll THEN "GET posts/blog?showAll=true"
                 ELSE "GET posts/blog"
           asked == Bearer(h) /\ showAll
           blog == BlogById(db, blogId)
           isOwner == asked /\ IsOwner(o.user, blog)
           rows == Select(db.posts, [blog_id |-> blogId])
       IN  /\ o \in IF asked THEN GetUserOutcomes(SplitSpaceSecond(Data(h)))
                    ELSE { NoOutcome }
           /\ apiCalls' = Append(apiCalls,
                  IF o.kind = "throw"
                  THEN Answer(op, Reader(h), 500, {})
                  ELSE IF ~isOwner
                  THEN Answer(op, Reader(h), 200,
                              Select(rows, [published |-> TRUE]))
                  ELSE Answer(op, Reader(h), 200, rows))
    /\ UNCHANGED <<visitorVars, keyVars, ipVars, auth, pageVars, db>>

\* GET /api/posts: a page of the published posts
ListPosts(h) ==
    /\ Len(apiCalls) < MaxCalls
    /\ \E page \in SUBSET Select(db.posts, [published |-> TRUE]) :
           apiCalls' = Append(apiCalls, Answer("GET posts", Reader(h), 200, page))
    /\ UNCHANGED <<visitorVars, keyVars, ipVars, auth, pageVars, db>>

\* `%${query.trim()}%`
SearchQuery(query) == <<"%">> \o trim(query) \o <<"%">>

Queries == { <<>>, <<"t">>, <<"t", "%">> }

\* GET /api/search/posts: the published posts whose title matches
SearchPosts(h, query) ==
    /\ Len(apiCalls) < MaxCalls
    /\ apiCalls' = Append(apiCalls,
           IF trim(query) = <<>>
           THEN Answer("GET search/posts", Reader(h), 200, {})
           ELSE Answer("GET search/posts", Reader(h), 200,
                    { p \in Select(db.posts, [published |-> TRUE]) :
                        ilike(p.title, SearchQuery(query)) }))
    /\ UNCHANGED <<visitorVars, keyVars, ipVars, auth, pageVars, db>>

\* GET /api/search/suggest: the posts part of the answer
Suggest(h, query) ==
    /\ Len(apiCalls) < MaxCalls
    /\ apiCalls' = Append(apiCalls,
           IF trim(query) = <<>> \/ Len(trim(query)) < 2
           THEN Answer("GET search/suggest", Reader(h), 200, {})
           ELSE Answer("GET search/suggest", Reader(h), 200,
                    { p \in Select(db.posts, [published |-> TRUE]) :
                        ilike(p.title, SearchQuery(query)) }))
    /\ UNCHANGED <<visitorVars, keyVars, ipVars, auth, pageVars, db>>

Outcomes == UNION { GetUserOutcomes(t) : t \in { "tokA", "tokB", "stale" } }
               \cup { NoOutcome }

NextPosts ==
    \/ \E h \in ReaderHeaders, id \in { 1, 2, 3, 9 }, o \in Outcomes :
           GetPost(h, id, o)
    \/ \E h \in ReaderHeaders, b \in { "b1", "b2", "b9" }, a \in BOOLEAN,
          o \in Outcomes :
           ListBlogPosts(h, b, a, o)
    \/ \E h \in ReaderHeaders : ListPosts(h)
    \/ \E h \in ReaderHeaders, q \in Queries : SearchPosts(h, q)
    \/ \E h \in ReaderHeaders, q \in Queries : Suggest(h, q)
    \/ \E u \in Callers, b \in { "b1", "b2" }, pub \in { undefined, {FALSE} } :
           CreatePost(u, b, <<"t">>, pub, <<>>)
    \/ \E u \in Callers, id \in { 1, 2, 3 }, pub \in { {TRUE}, {FALSE} } :
           UpdatePost(u, id, pub, undefined)
    \/ \E u \in Callers, id \in { 1, 2, 3 } : DeletePost(u, id)
    \/ \E i \in 1..Len(apiCalls) : DbWrite(i)
    \/ \E i \in 1..Len(apiCalls) : DbWriteError(i)

SpecPosts == InitDb /\ [][NextPosts]_vars

ReadOps ==
    { "GET posts/:id", "GET posts/blog", "GET posts/blog?showAll=true",
      "GET posts", "GET search/posts", "GET search/suggest" }

\* C19: no read endpoint sends a post with published = false to anyone but
\* the owner of its blog: the detail endpoint answers 404 instead; the
\* per-blog list holds unpublished posts only for showAll=true and the
\* owner's token; the global list, search and suggest send published posts
\* only.
C19_UnpublishedStaysPrivate ==
    \A i \in 1..Len(apiCalls) :
        LET c == apiCalls[i]
            hidden == { p \in c.out : ~p.published }
        IN  c.op \in ReadOps =>
                /\ \A p \in hidden : Owns(c.user, p.blog_id)
                /\ hidden # {} =>
                       c.op \in { "GET posts/:id", "GET posts/blog?showAll=true" }
                /\ c.status = 404 => c.out = {}

C19_Witness ==
    /\ Len(apiCalls) = 2
    /\ apiCalls[1].op = "GET posts/blog?showAll=true"
    /\ apiCalls[1].user = "u1"
    /\ \E p \in apiCalls[1].out : p.id = 2 /\ ~p.published
    /\ apiCalls[2].op = "GET posts/:id"
    /\ apiCalls[2].user = "u2"
    /\ apiCalls[2].status = 404
    /\ \E p \in db.posts : p.id = 2 /\ ~p.published

-----------------------------------------------------------------------------
(* routes/posts: the category links of a post                              *)

\* the bodies' category_ids: left out, empty, three ids, three others, and
\* six ids of which slice(0, 5) keeps five
SuppliedIds ==
    { undefined, {<<>>}, {<<1, 2, 3>>}, {<<4, 5, 6>>},
      {<<1, 2, 3, 4, 5, 6>>} }

NextLinks ==
    \/ \E u \in Callers, ids \in { <<>>, <<1, 2, 3, 4, 5, 6>> } :
           CreatePost(u, "b1", <<"t">>, undefined, ids)
    \/ \E u \in Callers, id \in { 1, 9 }, ids \in SuppliedIds :
           UpdatePost(u, id, undefined, ids)
    \/ \E i \in 1..Len(apiCalls) : DbWrite(i)
    \/ \E i \in 1..Len(apiCalls) : DbWriteError(i)

SpecLinks == InitDb /\ [][NextLinks]_vars

\* C21: whatever the sequence and interleaving of POST /api/posts and
\* PATCH /api/posts/:id calls, no post is linked to more than 5 categories
\* in post_categories.
C21_LinksBounded ==
    \A p \in db.posts :
        Cardinality(Select(db.post_categories, [post_id |-> p.id])) <= 5

-----------------------------------------------------------------------------
(* routes/skins: the skin application of a blog                            *)

NextSkin ==
    \/ \E u \in Callers, b \in { "b1", "b2" }, k \in { "s1", "s9" } :
           ApplySkin(u, b, k)
    \/ \E u \in Callers, b \in { "b1", "b2" }, css \in { undefined, {"css"} },
          lay \in { undefined, {"layout"} } :
           CustomizeSkin(u, b, css, lay)
    \/ \E u \in Callers, b \in { "b1", "b2" } : ResetSkin(u, b)
    \/ \E i \in 1..Len(apiCalls) : DbWrite(i)
    \/ \E i \in 1..Len(apiCalls) : DbWriteError(i)

SpecSkin == InitDb /\ [][NextSkin]_vars

Applications(d, blog_id) ==
    Select(d.blog_skin_applications, [blog_id |-> blog_id])

-----------------------------------------------------------------------------
(* routes/skins: the skin library of a user                                *)

\* POST /api/skins/download/:skinId
DownloadSkin(user, skinId) ==
    /\ Len(apiCalls) < MaxCalls
    /\ LET op == "POST skins/download"
           skin == Single(Select(db.blog_skins, [id |-> skinId]))
           existing == Single(Select(db.user_skin_library,
                                     [user_id |-> user, skin_id |-> skinId]))
           row == [id |-> NewId(Len(apiCalls) + 1), user_id |-> user,
                   skin_id |-> skinId]
       IN  apiCalls' = Append(apiCalls,
               IF skin = null
               THEN Refused(op, user, "", 404)
               ELSE IF existing # null
               THEN Refused(op, user, "", 200)
               ELSE Proceeds(op, user, "",
                        << Insert("user_skin_library", {row}, TRUE) >>, 200))
    /\ UNCHANGED <<visitorVars, keyVars, ipVars, auth, pageVars, db>>

NextLibrary ==
    \/ \E u \in Users, k \in { "s0", "s1", "s9" } : DownloadSkin(u, k)
    \/ \E i \in 1..Len(apiCalls) : DbWrite(i)
    \/ \E i \in 1..Len(apiCalls) : DbWriteError(i)

SpecLibrary == InitDb /\ [][NextLibrary]_vars

\* C23: whatever the number and interleaving of
\* POST /api/skins/download/:skinId calls, the library never holds two rows
\* for the same user and skin, and never a row for a skin that does not
\* exist.
C23_OneLibraryRow ==
    /\ \A r1, r2 \in db.user_skin_library :
           (r1.user_id = r2.user_id /\ r1.skin_id = r2.skin_id) => r1 = r2
    /\ \A r \in db.user_skin_library :
           \E k \in db.blog_skins : k.id = r.skin_id

-----------------------------------------------------------------------------
(* routes/forum: the view count of a forum post                            *)

\* GET /api/forum/:id. The update of view_count is not awaited: the answer
\* does not wait for it and never sees its outcome, so the call is answered
\* while its write is still to come; a write that fails, or is never sent,
\* is a write that stays behind.
GetForum(id) ==
    /\ Len(apiCalls) < MaxCalls
    /\ LET op == "GET forum/:id"
           forum == Single(Select(db.forum, [id |-> id]))
           row == Data(forum)
           view_count == row.view_count + 1
       IN  apiCalls' = Append(apiCalls,
               IF forum = null
               THEN Refused(op, "", "", 404)
               ELSE [ ApiCall(op, "", row.blog_id,
                              << Update("forum", [view_count |-> view_count],
                                        [id |-> id], FALSE) >>, 200, 200)
                        EXCEPT !.out = { [row EXCEPT !.view_count = view_count] } ])
    /\ UNCHANGED <<visitorVars, keyVars, ipVars, auth, pageVars, db>>

\* the forum posts 7 and 8 exist, seen 0 and 3 times so far; a forum post
\* is created with view_count 0
InitialViews(f) == IF f = 8 THEN 3 ELSE 0

InitViews ==
    /\ VisitorIdle
    /\ PureIdle
    /\ auth = <<>>
    /\ PageIdle
    /\ db = [InitialDb EXCEPT !.forum =
                { [id |-> f, title |-> <<"t">>, user_id |-> "u1",
                   blog_id |-> "b1", view_count |-> InitialViews(f)] :
                      f \in { 7, 8 } }]
    /\ apiCalls = <<>>

NextViews ==
    \/ \E id \in { 7, 8, 9, NewId(1) } : GetForum(id)
    \/ \E u \in Callers, b \in BlogIds, t \in { <<>>, <<"t">> } :
           CreateForum(u, t, b)
    \/ \E i \in 1..Len(apiCalls) : DbWrite(i)

SpecViews == InitViews /\ [][NextViews]_vars

\* the calls that answered a view of forum post f
Views(f) ==
    { i \in 1..Len(apiCalls) :
          /\ apiCalls[i].op = "GET forum/:id"
          /\ apiCalls[i].status = 200
          /\ \E r \in apiCalls[i].out : r.id = f }

\* C24: once the writes of all answered views are through, the stored
\* view_count of every forum post is its initial value plus the number of
\* successful GET /api/forum/:id calls for it, in any interleaving.
C24_EveryViewCounted ==
    (\A i \in 1..Len(apiCalls) : apiCalls[i].plan = <<>>) =>
        \A f \in db.forum :
            f.view_count = InitialViews(f.id) + Cardinality(Views(f.id))

-----------------------------------------------------------------------------
(* routes/forum: the comments of a forum post and their replies            *)

\* .order('created_at', { ascending: true })
OrderByCreatedAt(rows) ==
    CHOOSE s \in [1..Cardinality(rows) -> rows] :
        /\ \A r \in rows : \E k \in DOMAIN s : s[k] = r
        /\ \A j, k \in DOMAIN s : j < k => s[j].created_at <= s[k].created_at

\* the body of the answer: the top-level comments, each with the replies
\* whose parent_id is its id
Threaded(comments) ==
    LET topLevelComments == SelectSeq(comments, LAMBDA c : c.parent_id = null)
        replies == SelectSeq(comments, LAMBDA c : c.parent_id # null)
    IN  [ k \in DOMAIN topLevelComments |->
            LET comment == topLevelComments[k]
            IN  [f \in DOMAIN comment \cup { "replies" } |->
                    IF f = "replies"
                    THEN SelectSeq(replies,
                                   LAMBDA r : r.parent_id = {comment.id})
                    ELSE comment[f]] ]

\* GET /api/forum/:id/comments; the select comes back with the rows or with
\* an error
GetComments(id, ok) ==
    /\ Len(apiCalls) < MaxCalls
    /\ LET op == "GET forum/:id/comments"
           rows == OrderByCreatedAt(
                       Select(db.forum_comments, [forum_id |-> id]))
           \* .select('id, content, created_at, user_id, blog_id, parent_id')
           comments == [ k \in DOMAIN rows |->
                           [id |-> rows[k].id,
                            created_at |-> rows[k].created_at,
                            user_id |-> rows[k].user_id,
                            blog_id |-> rows[k].blog_id,
                            parent_id |-> rows[k].parent_id] ]
       IN  apiCalls' = Append(apiCalls,
               IF ~ok
               THEN Answer(op, "", 500, <<>>)
               ELSE Answer(op, "", 200, Threaded(comments)))
    /\ UNCHANGED <<visitorVars, keyVars, ipVars, auth, pageVars, db>>

\* forum post 7 holds comment 1 and its reply 2, forum post 8 holds
\* comment 3
InitThread ==
    /\ VisitorIdle
    /\ PureIdle
    /\ auth = <<>>
    /\ PageIdle
    /\ db = [InitialDb EXCEPT !.forum_comments =
                { [id |-> 1, forum_id |-> 7, user_id |-> "u1",
                   blog_id |-> "b1", parent_id |-> null, created_at |-> 0],
                  [id |-> 2, forum_id |-> 7, user_id |-> "u2",
                   blog_id |-> "b2", parent_id |-> {1}, created_at |-> 1],
                  [id |-> 3, forum_id |-> 8, user_id |-> "u1",
                   blog_id |-> "b1", parent_id |-> null, created_at |-> 2] }]
    /\ apiCalls = <<>>

NextThread ==
    \/ \E u \in Callers, p \in { null, {1}, {2} } :
           CreateComment(u, 7, "b1", p)
    \/ \E f \in { 7, 8, 9 }, ok \in BOOLEAN : GetComments(f, ok)
    \/ \E i \in 1..Len(apiCalls) : DbWrite(i)
    \/ \E i \in 1..Len(apiCalls) : DbWriteError(i)

SpecThread == InitThread /\ [][NextThread]_vars

\* the ids in an answer, each top-level comment followed by its replies
RECURSIVE Flatten(_)
Flatten(body) ==
    IF body = <<>> THEN <<>>
    ELSE <<Head(body).id>>
         \o [k \in DOMAIN Head(body).replies |-> Head(body).replies[k].id]
         \o Flatten(Tail(body))

\* C25: the answer of GET /api/forum/:id/comments holds every comment of
\* the forum post exactly once, as a top-level entry or in the replies of
\* its parent, whatever the parent of a reply is.
C25_EveryCommentOnce ==
    [][\A f \in { 7, 8, 9 } :
          GetComments(f, TRUE) =>
              LET ids == Flatten(apiCalls'[Len(apiCalls')].out)
              IN  \A c \in Select(db.forum_comments, [forum_id |-> f]) :
                      Cardinality({ k \in DOMAIN ids : ids[k] = c.id }) = 1]_vars

-----------------------------------------------------------------------------
(* routes/upload: deleting a temporary image                               *)
(* A URL is the sequence of its pieces; the piece "P" is the configured    *)
(* public URL of the bucket, "F" another origin.                           *)

publicUrl == <<"P">>

\* s.startsWith(p)
StartsWith(s, p) == Len(s) >= Len(p) /\ SubSeq(s, 1, Len(p)) = p

\* s.replace(p, ''): the first occurrence of p is taken out
Replace(s, p) ==
    LET at == { k \in 1..(Len(s) - Len(p) + 1) :
                  SubSeq(s, k, k + Len(p) - 1) = p }
        first == CHOOSE k \in at : \A j \in at : k <= j
    IN  IF at = {} THEN s
        ELSE SubSeq(s, 1, first - 1) \o SubSeq(s, first + Len(p), Len(s))

\* services/r2.service
getKeyFromUrl(url) ==
    IF ~StartsWith(url, publicUrl) THEN null
    ELSE { Replace(url, publicUrl \o <<"/">>) }

InTemp(key, user) == StartsWith(key, <<"temp", "/">>)

\* key.startsWith(`temp/${user.id}/`)
InOwnTemp(key, user) == StartsWith(key, <<"temp", "/", user, "/">>)

\* stands for a url of the body that is no string (a number, an array):
\* url.startsWith is no function and the call throws
NotAString == {<<"#">>}

\* DELETE /api/upload/temp; deleteFromR2 is awaited and throws when the
\* bucket refuses
DeleteTemp(user, url) ==
    /\ Len(apiCalls) < MaxCalls
    /\ LET op == "DELETE upload/temp"
           key == getKeyFromUrl(Data(url))
       IN  apiCalls' = Append(apiCalls,
               IF ~Truthy(url)
               THEN Refused(op, user, "", 400)
               ELSE IF url = NotAString
               THEN Refused(op, user, "", 500)
               ELSE IF ~Truthy(key)
               THEN Refused(op, user, "", 400)
               ELSE IF ~InOwnTemp(Data(key), user)
               THEN Refused(op, user, "", 403)
               ELSE Proceeds(op, user, "",
                        << Delete("objects", [key |-> Data(key)], TRUE) >>,
                        200))
    /\ UNCHANGED <<visitorVars, keyVars, ipVars, auth, pageVars, db>>

\* the urls of the bodies: none, the empty string, no string, and strings
Urls ==
    { undefined, {<<>>}, NotAString,
      {<<"P", "/", "temp", "/", "u1", "/", "a">>},
      {<<"P", "/", "temp", "/", "u2", "/", "a">>},
      {<<"P", "/", "temp", "/", "u1", "/">>},
      {<<"P", "/", "posts", "/", "u1", "/", "a">>},
      {<<"F", "/", "temp", "/", "u1", "/", "a">>},
      {<<"temp", "/", "u1", "/", "a">>},
      {<<"P", "/">>}, {<<"P">>},
      {<<"P", "temp", "/", "u1", "/", "a">>},
      {<<"P", "temp", "/", "u1", "/", "P", "/", "a">>},
      {<<"P", "/", "P", "/", "temp", "/", "u1", "/", "a">>} }

\* the bucket holds a temporary image of each user and a permanent one
InitUpload ==
    /\ VisitorIdle
    /\ PureIdle
    /\ auth = <<>>
    /\ PageIdle
    /\ db = [InitialDb EXCEPT !.objects =
                { [key |-> <<"temp", "/", "u1", "/", "a">>],
                  [key |-> <<"temp", "/", "u2", "/", "a">>],
                  [key |-> <<"posts", "/", "u1", "/", "a">>] }]
    /\ apiCalls = <<>>

NextUpload ==
    \/ \E u \in Users, url \in Urls : DeleteTemp(u, url)
    \/ \E i \in 1..Len(apiCalls) : DbWrite(i)
    \/ \E i \in 1..Len(apiCalls) : DbWriteError(i)

SpecUpload == InitUpload /\ [][NextUpload]_vars

\* the url is the public URL, a slash, and a key in the temp folder of u
OwnTempUrl(url, u) ==
    /\ url # undefined
    /\ url # NotAString
    /\ \E k \in 0..3 :
           /\ Len(Data(url)) = 6 + k
           /\ SubSeq(Data(url), 1, 6) = <<"P", "/", "temp", "/", u, "/">>

\* no url, or one that does not begin with the public URL
MissingOrForeign(url) ==
    \/ url = undefined
    \/ url = {<<>>}
    \/ url # NotAString /\ Head(Data(url)) # "P"

\* what a step removes from the bucket lies in the temp folder of a caller
\* whose delete was issued
DeletedInOwnTemp ==
    \A o \in db.objects \ db'.objects :
        \E i \in 1..Len(apiCalls) :
            /\ apiCalls[i].op = "DELETE upload/temp"
            /\ apiCalls[i].plan # <<>>
            /\ Len(o.key) >= 4
            /\ SubSeq(o.key, 1, 4) = <<"temp", "/", apiCalls[i].user, "/">>

\* C26 as stated: a delete is issued only for a url in the caller's own temp
\* folder; a missing or foreign url is answered 400 and every other url
\* whose key is not in the caller's temp folder 403, and nothing is removed
\* from the bucket for them.
C26_ForeignIs400OtherIs403 ==
    [][/\ DeletedInOwnTemp
       /\ \A u \in Users, url \in Urls :
              DeleteTemp(u, url) =>
                  LET c == apiCalls'[Len(apiCalls')]
                  IN  /\ c.plan # <<>> <=> OwnTempUrl(url, u)
                      /\ MissingOrForeign(url) => c.status = 400
                      /\ (~MissingOrForeign(url) /\ ~OwnTempUrl(url, u)) =>
                             c.status = 403]_vars

\* C26: a delete is issued exactly for a url made of the public URL, a
\* slash and a key in the caller's own temp folder, and it names that key;
\* nothing else is ever removed from the bucket. A missing, empty or
\* foreign url is answered 400, and so is the public URL followed by a
\* slash alone (an empty key); a url that is no string is answered 500;
\* every other url 403.
C26_TempDeleteConfined ==
    [][/\ DeletedInOwnTemp
       /\ \A u \in Users, url \in Urls :
              DeleteTemp(u, url) =>
                  LET c == apiCalls'[Len(apiCalls')]
                  IN  /\ c.plan # <<>> <=> OwnTempUrl(url, u)
                      /\ c.plan # <<>> =>
                             /\ Len(c.plan) = 1
                             /\ c.plan[1].kind = "delete"
                             /\ c.plan[1].table = "objects"
                             /\ c.plan[1].w.key =
                                    SubSeq(Data(url), 3, Len(Data(url)))
                      /\ c.plan = <<>> =>
                             c.status =
                                 IF MissingOrForeign(url)
                                       \/ url = {<<"P", "/">>} THEN 400
                                 ELSE IF url = NotAString THEN 500
                                 ELSE 403]_vars

\* u1 has deleted her own temporary image and was refused for that of u2,
\* which is still in the bucket
C26_Witness ==
    /\ Len(apiCalls) = 2
    /\ \A i \in 1..2 : apiCalls[i].op = "DELETE upload/temp"
                       /\ apiCalls[i].user = "u1"
    /\ apiCalls[1].status = 403
    /\ apiCalls[2].status = 200
    /\ db.objects = { [key |-> <<"temp", "/", "u2", "/", "a">>],
                      [key |-> <<"posts", "/", "u1", "/", "a">>] }

-----------------------------------------------------------------------------
(* routes/search: the blog attached to each post of a page of results      *)

\* .order('created_at', { ascending: false })
OrderByCreatedAtDesc(rows) ==
    LET s == OrderByCreatedAt(rows)
    IN  [k \in DOMAIN s |-> s[Len(s) + 1 - k]]

\* the page of GET /api/search/posts: the published posts whose title
\* matches, newest first, from offset to offset + limit - 1
SearchRows(d, query, pg) ==
    LET found == OrderByCreatedAtDesc(
                     { p \in Select(d.posts, [published |-> TRUE]) :
                         ilike(p.title, SearchQuery(query)) })
    IN  SubSeq(found, Range(pg).from + 1, Min(Range(pg).to + 1, Len(found)))

\* .select('id, name, thumbnail_url') of a blog
BlogColumns(b) == [id |-> b.id, name |-> b.name]

\* { ...post, blog }
WithBlog(post, blog) ==
    [f \in DOMAIN post \cup { "blog" } |->
        IF f = "blog" THEN blog ELSE post[f]]

MapFirst(blogs, id) ==
    IF blogs = {} THEN null
    ELSE { BlogColumns(CHOOSE b \in blogs : TRUE) }

\* blogMap.get(post.blog_id) || null, for the map built from the rows of
\* the one query
MapGet(blogs, id) ==
    IF \E b \in blogs : b.id = id
    THEN { BlogColumns(CHOOSE b \in blogs : b.id = id) }
    ELSE null

\* routes/search: one .in('id', blogIds) query over the distinct blog_ids,
\* skipped when the page is empty; its data is null when it fails
Batched(posts, d, ok) ==
    LET blogIds == { posts[k].blog_id : k \in DOMAIN posts }
        blogs == IF blogIds # {} /\ ok
                 THEN { b \in d.blogs : b.id \in blogIds }
                 ELSE {}
    IN  [k \in DOMAIN posts |->
            WithBlog(posts[k], MapGet(blogs, posts[k].blog_id))]

\* the router of routes/categories.ts: one .eq('id', post.blog_id).single()
\* for each post
PerItem(posts, d, ok) ==
    [k \in DOMAIN posts |->
        LET blog == IF ok THEN BlogById(d, posts[k].blog_id) ELSE null
        IN  WithBlog(posts[k], { BlogColumns(b) : b \in blog })]

\* GET /api/search/posts with its pagination and the blogs attached
SearchPage(query, limitStr, offsetStr, ok) ==
    /\ Len(apiCalls) < MaxCalls
    /\ LET op == "GET search/posts"
           posts == SearchRows(db, query,
                               validatePagination(limitStr, offsetStr))
       IN  apiCalls' = Append(apiCalls,
               IF trim(query) = <<>>
               THEN Answer(op, "", 200, <<>>)
               ELSE Answer(op, "", 200, Batched(posts, db, ok)))
    /\ UNCHANGED <<visitorVars, keyVars, ipVars, auth, pageVars, db>>

\* besides the rows of InitialDb: a published post of b2 and a published
\* post whose blog row is gone
InitSearch ==
    /\ VisitorIdle
    /\ PureIdle
    /\ auth = <<>>
    /\ PageIdle
    /\ db = [InitialDb EXCEPT !.posts = @ \cup
                { [id |-> 4, blog_id |-> "b2", user_id |-> "u2",
                   title |-> <<"t">>, published |-> TRUE, created_at |-> 3],
                  [id |-> 5, blog_id |-> "b9", user_id |-> "u2",
                   title |-> <<"t">>, published |-> TRUE,
                   created_at |-> 4] }]
    /\ apiCalls = <<>>

PageStrings == { undefined, {<<"1">>}, {<<"2">>} }

NextSearch ==
    \/ \E q \in { <<>>, <<"t">>, <<"x">> }, l, o \in PageStrings,
          ok \in BOOLEAN :
           SearchPage(q, l, o, ok)
    \/ \E t \in { <<"t">>, <<"x">> } : CreatePost("u1", "b1", t, undefined, <<>>)
    \/ \E id \in { 1, 2 }, pub \in { {TRUE}, {FALSE} } :
           UpdatePost("u1", id, pub, undefined)
    \/ \E i \in 1..Len(apiCalls) : DbWrite(i)
    \/ \E i \in 1..Len(apiCalls) : DbWriteError(i)

SpecSearch == InitSearch /\ [][NextSearch]_vars

-----------------------------------------------------------------------------
(* routes/profile: what the restore of an account leaves alone             *)

\* C28: the write of POST /api/profile/restore changes nothing but the
\* profiles table, where it sets the deleted_at of the caller's profile to
\* null: every row of blogs stays as it is, so the blogs soft-deleted with
\* the account stay soft-deleted; the deleted_at of a blog becomes null
\* only through POST /api/profile/blog/:blogId/restore for that blog.
C28_RestoreLeavesBlogs ==
    [][/\ \A i \in 1..Len(apiCalls) :
              LET c == apiCalls[i]
              IN  (c.op = "POST profile/restore" /\ apiCalls'[i] # c) =>
                      /\ \A t \in DOMAIN db \ { "profiles" } : db'[t] = db[t]
                      /\ Succeeds(i) =>
                             db'.profiles =
                                 { IF p.id = c.user
                                   THEN [p EXCEPT !.deleted_at = null]
                                   ELSE p : p \in db.profiles }
       /\ \A b \in db.blogs, r \in db'.blogs :
              (b.id = r.id /\ b.deleted_at # null /\ r.deleted_at = null) =>
                  \E j \in 1..Len(apiCalls) :
                      /\ apiCalls[j].op = "POST profile/blog/restore"
                      /\ apiCalls[j].blog_id = b.id
                      /\ Succeeds(j)]_vars

\* u1 deleted her account and restored it: the profile is back and blog b1,
\* soft-deleted with the account, is still soft-deleted
C28_Witness ==
    /\ Len(apiCalls) = 2
    /\ apiCalls[1].op = "DELETE profile"
    /\ apiCalls[2].op = "POST profile/restore"
    /\ \A i \in 1..2 : apiCalls[i].user = "u1" /\ apiCalls[i].status = 200
    /\ [id |-> "u1", deleted_at |-> null] \in db.profiles
    /\ \E b \in db.blogs : b.id = "b1" /\ b.deleted_at = Stamp(1, 2)

====
